---------------------------- MODULE Spec2Model ----------------------------
(***************************************************************************)
(* A model of the CHIP-8 machine core of src/c8.c: the machine state       *)
(* (struct c8_state), the host entry points (c8_create, c8_reset,          *)
(* c8_load_rom, c8_step, c8_step_frame, c8_update_timers, c8_press_key,    *)
(* c8_release_key, c8_set_rng_seed) and the base instruction set.          *)
(*                                                                         *)
(* The machine is a record s; every C function is an operator from a       *)
(* machine record to the SET of machine records it can return.  The set    *)
(* has one element except where the C code has undefined behaviour (a      *)
(* read or write outside an array, a read of a field malloc left           *)
(* uninitialised); there it holds one element for every outcome modelled.  *)
(***************************************************************************)
EXTENDS Integers, Sequences, FiniteSets, TLC

(***************************************************************************)
(* Fixed-width integer helpers.                                            *)
(***************************************************************************)
U8(n) == n % 256

U16(n) == n % 65536

\* a faulty minimum that takes its first argument
C8_MIN_TakesFirst(a, b) == a

C8_MIN(a, b) == IF a < b THEN a ELSE b

C8_MAX(a, b) == IF a > b THEN a ELSE b

\* bit k (0 = least significant) of n
Bit(n, k) == (n \div (2^k)) % 2

BitAnd(a, b) ==
  LET t(k) == (2^k) * (Bit(a, k) * Bit(b, k))
  IN  t(0) + t(1) + t(2) + t(3) + t(4) + t(5) + t(6) + t(7)

BitOr(a, b) ==
  LET t(k) == (2^k) * (IF Bit(a, k) + Bit(b, k) > 0 THEN 1 ELSE 0)
  IN  t(0) + t(1) + t(2) + t(3) + t(4) + t(5) + t(6) + t(7)

\* a faulty exclusive or that never clears a bit
BitXor_Or(a, b) == BitOr(a, b)

BitXor(a, b) ==
  LET t(k) == (2^k) * ((Bit(a, k) + Bit(b, k)) % 2)
  IN  t(0) + t(1) + t(2) + t(3) + t(4) + t(5) + t(6) + t(7)

(***************************************************************************)
(* Program constants.                                                      *)
(***************************************************************************)
C8_MEM_FONT_OFFSET == 80

C8_PC_ON_FAULT == 0

C8_ROM_OFFSET == 512

C8_KEY_MAX == 16

C8_STACK_SIZE == 16

C8_FAULT_HANDLER ==
  << BitOr(16, BitAnd(C8_PC_ON_FAULT, 3840) \div 256), BitAnd(C8_PC_ON_FAULT, 255) >>

C8_FONT ==
  << 240, 144, 144, 144, 240,   32,  96,  32,  32, 112,
     240,  16, 240, 128, 240,  240,  16, 240,  16, 240,
     144, 144, 240,  16,  16,  240, 128, 240,  16, 240,
     240, 128, 240, 144, 240,  240,  16,  32,  64,  64,
     240, 144, 240, 144, 240,  240, 144, 240,  16, 240,
     240, 144, 240, 144, 144,  224, 144, 224, 144, 224,
     240, 128, 128, 128, 240,  224, 144, 144, 144, 224,
     240, 128, 240, 128, 240,  240, 128, 240, 128, 128 >>

\* enum c8_quirk: a quirk bitset is modelled as the set of the flags it holds
C8_QUIRK_SHIFT == "SHIFT"

C8_QUIRK_LOAD_STORE_INC_I_BY_X == "LOAD_STORE_INC_I_BY_X"

C8_QUIRK_LOAD_STORE_NO_INC_I == "LOAD_STORE_NO_INC_I"

C8_QUIRK_WRAP_SPRITES == "WRAP_SPRITES"

C8_QUIRK_BXNN_JUMP == "BXNN_JUMP"

C8_QUIRK_VBLANK == "VBLANK"

C8_QUIRK_VF_RESET == "VF_RESET"

C8_QUIRK_NONE == {}

AllQuirks ==
  { C8_QUIRK_SHIFT, C8_QUIRK_LOAD_STORE_INC_I_BY_X, C8_QUIRK_LOAD_STORE_NO_INC_I,
    C8_QUIRK_WRAP_SPRITES, C8_QUIRK_BXNN_JUMP, C8_QUIRK_VBLANK, C8_QUIRK_VF_RESET }

(***************************************************************************)
(* The configuration the host passes to c8_create (c8_machine_config).     *)
(* The model runs a machine smaller than the default one: the memory ends  *)
(* a few instructions after the ROM base and the screen is a few sprite    *)
(* rows.                                                                   *)
(***************************************************************************)
memory_size == 520

cycles_per_frame == 3

screen_width == 10

screen_height == 4

\* the quirk bitsets a machine of the model is created with
QuirkSets == { C8_QUIRK_NONE, AllQuirks }

Configs ==
  { [ op_handlers |-> << "c8_chip8_op_handler" >>, quirks |-> q,
      memory_size |-> memory_size, cycles_per_frame |-> cycles_per_frame,
      screen_width |-> screen_width, screen_height |-> screen_height ] :
    q \in QuirkSets }

(***************************************************************************)
(* Outcomes of undefined behaviour.  A read outside an array, or of a      *)
(* field that c8_create's malloc left uninitialised, yields one of the     *)
(* values below; the sets are small samples of the values the heap can     *)
(* hold, chosen so that both in-range and out-of-range results occur.      *)
(***************************************************************************)
\* a byte read outside the memory buffer
UBBytes == {0, 18, 255}

\* a 16-bit word read outside struct c8_registers
UBWords == {0, 65534}

\* the rng and vblank fields of the block malloc returns to c8_create
UninitHeap ==
  { [rng |-> << 0, 0, 0, 0 >>, vblank |-> 0],
    [rng |-> << 1, 0, 0, 0 >>, vblank |-> 2] }

(***************************************************************************)
(* struct c8_state.  rng is the byte array of the union, rng[k + 1] being  *)
(* b[k]; memory and display are the two owned buffers.  Three fields       *)
(* are not in the C struct and only observe the run:                       *)
(*   live    - the allocations of the machine that have not been freed,    *)
(*   ub      - the undefined accesses made by the current host call,       *)
(*   ops     - the instruction words fetched by the current host call,     *)
(*   crashed - a store destroyed storage outside struct c8_registers, from *)
(*             where on the process has no modelled behaviour.             *)
(***************************************************************************)
ResetRegisters ==
  [ stack |-> [k \in 0..(C8_STACK_SIZE - 1) |-> 0],
    v     |-> [k \in 0..15 |-> 0],
    pc    |-> C8_ROM_OFFSET,
    i     |-> 0,
    sp    |-> 0,
    dt    |-> 0,
    st    |-> 0 ]

ResetMemory(cfg) ==
  [a \in 0..(cfg.memory_size - 1) |->
     IF a >= C8_PC_ON_FAULT /\ a < C8_PC_ON_FAULT + Len(C8_FAULT_HANDLER)
       THEN C8_FAULT_HANDLER[a - C8_PC_ON_FAULT + 1]
     ELSE IF a >= C8_MEM_FONT_OFFSET /\ a < C8_MEM_FONT_OFFSET + 80
       THEN C8_FONT[a - C8_MEM_FONT_OFFSET + 1]
     ELSE 0]

ResetDisplay(cfg) ==
  [p \in 0..(cfg.screen_width * cfg.screen_height - 1) |-> 0]

\* the null handle: no machine behind it, only the observation fields
nullptr == [ null |-> TRUE, live |-> {}, ub |-> {}, ops |-> << >>, crashed |-> FALSE ]

\* state == nullptr
IsNull(s) == "null" \in DOMAIN s

\* a faulty c8_reset that leaves the key array as it was
c8_reset_KeepsKeys(s) ==
  { [ s EXCEPT !.memory = ResetMemory(s.config),
               !.display = ResetDisplay(s.config),
               !.live = @ \cup {"memory", "display"},
               !.delta_time = 0,
               !.registers = ResetRegisters ] }

\* a faulty c8_reset that also clears the PRNG state
c8_reset_ClearsRng(s) ==
  { [ s EXCEPT !.memory = ResetMemory(s.config),
               !.display = ResetDisplay(s.config),
               !.live = @ \cup {"memory", "display"},
               !.delta_time = 0,
               !.pressed_keys = [k \in 0..(C8_KEY_MAX - 1) |-> FALSE],
               !.registers = ResetRegisters,
               !.rng = << 0, 0, 0, 0 >> ] }

\* void c8_reset(c8_state *state): rng and vblank are not assigned; the two
\* buffers are allocated by the first reset and cleared by the later ones
c8_reset(s) ==
  IF IsNull(s) THEN { s }
  ELSE { [ s EXCEPT !.memory = ResetMemory(s.config),
                    !.display = ResetDisplay(s.config),
                    !.live = @ \cup {"memory", "display"},
                    !.delta_time = 0,
                    !.pressed_keys = [k \in 0..(C8_KEY_MAX - 1) |-> FALSE],
                    !.registers = ResetRegisters ] }

\* c8_state *c8_create(c8_machine_config config): malloc, then c8_reset
c8_create(cfg) ==
  UNION { c8_reset([ config       |-> cfg,
                     registers    |-> ResetRegisters,
                     pressed_keys |-> [k \in 0..(C8_KEY_MAX - 1) |-> FALSE],
                     memory       |-> ResetMemory(cfg),
                     display      |-> ResetDisplay(cfg),
                     rng          |-> h.rng,
                     delta_time   |-> 0,
                     vblank       |-> h.vblank,
                     live         |-> {"state"},
                     ub           |-> {},
                     ops          |-> << >>,
                     crashed      |-> FALSE ]) :
          h \in UninitHeap }

HasQuirk(s, q) == q \in s.config.quirks

\* note an undefined access of kind k in the machine record
MarkUB(s, k) == [s EXCEPT !.ub = @ \cup {k}]

(***************************************************************************)
(* The 16-bit word at stack[k] for any index k in 0..255, by the layout of *)
(* struct c8_registers (stack at byte 0, v at 32, pc at 48, i at 50, sp at *)
(* 52, dt at 53, st at 54, one padding byte; little-endian).  An index     *)
(* past the struct reads the heap.                                         *)
(***************************************************************************)
StackRead(s, k) ==
  LET r == s.registers IN
  IF k < C8_STACK_SIZE THEN { r.stack[k] }
  ELSE IF k < 24 THEN { r.v[2 * (k - 16)] + 256 * r.v[2 * (k - 16) + 1] }
  ELSE IF k = 24 THEN { r.pc }
  ELSE IF k = 25 THEN { r.i }
  ELSE IF k = 26 THEN { r.sp + 256 * r.dt, U8(r.sp + 1) + 256 * r.dt }
  ELSE IF k = 27 THEN { r.st + 256 * b : b \in UBBytes }
  ELSE UBWords

(***************************************************************************)
(* The store stack[k] = w for any index k in 0..255, by the same layout.   *)
(* A store past struct c8_registers lands on the key array and the buffer  *)
(* pointers of struct c8_state: the machine is marked crashed.             *)
(***************************************************************************)
StackWrite(s, k, w) ==
  IF k < C8_STACK_SIZE THEN [s EXCEPT !.registers.stack[k] = w]
  ELSE IF k < 24 THEN [s EXCEPT !.registers.v[2 * (k - 16)] = w % 256,
                                !.registers.v[2 * (k - 16) + 1] = w \div 256]
  ELSE IF k = 24 THEN [s EXCEPT !.registers.pc = w]
  ELSE IF k = 25 THEN [s EXCEPT !.registers.i = w]
  ELSE IF k = 26 THEN [s EXCEPT !.registers.sp = w % 256,
                                !.registers.dt = w \div 256]
  ELSE IF k = 27 THEN [s EXCEPT !.registers.st = w % 256]
  ELSE [s EXCEPT !.crashed = TRUE]

\* the byte memory[a]; outside the buffer the read returns a heap byte
MemRead(s, a) ==
  IF a < s.config.memory_size THEN { s.memory[a] } ELSE UBBytes

\* the store memory[a] = b; outside the buffer it lands in the heap
MemWrite(s, a, b) ==
  IF a < s.config.memory_size THEN [s EXCEPT !.memory[a] = b]
  ELSE MarkUB(s, "mem_write")

\* a faulty advance that counts n in words of two bytes
AdvancePc_InWords(s, n) == [s EXCEPT !.registers.pc = U16(@ + n \div 2)]

\* registers.pc += n
AdvancePc(s, n) == [s EXCEPT !.registers.pc = U16(@ + n)]

(***************************************************************************)
(* CHIP-8 instructions.  V(s, x) is registers.v[x].                        *)
(***************************************************************************)
V(s, x) == s.registers.v[x]

SetV(s, x, b) == [s EXCEPT !.registers.v[x] = b]

\* a faulty SYS that leaves pc on the instruction
c8_op_sys_Stays(s, nnn) == { s }

\* 0nnn - SYS nnn
c8_op_sys(s, nnn) == { AdvancePc(s, 2) }

\* 00E0 - CLS
c8_op_cls(s) == { AdvancePc([s EXCEPT !.display = ResetDisplay(s.config)], 2) }

\* 00EE - RET: the sp == 0 branch assigns pc and falls through to the pop
c8_op_ret(s) ==
  LET s1  == IF s.registers.sp = 0
               THEN [s EXCEPT !.registers.pc = C8_PC_ON_FAULT] ELSE s
      sp1 == U8(s1.registers.sp + 255)
      s2  == IF sp1 >= C8_STACK_SIZE THEN MarkUB(s1, "stack_read") ELSE s1
  IN  { [s2 EXCEPT !.registers.sp = sp1, !.registers.pc = U16(w + 2)] :
        w \in StackRead(s1, sp1) }

\* a faulty JP that advances pc past the target as other instructions do
c8_op_jp_nnn_ThenAdvances(s, nnn) == { [s EXCEPT !.registers.pc = U16(nnn + 2)] }

\* 1nnn - JP nnn
c8_op_jp_nnn(s, nnn) == { [s EXCEPT !.registers.pc = nnn] }

\* a faulty CALL that pushes the address of the next instruction
c8_op_call_PushesNext(s, nnn) ==
  LET k == s.registers.sp
  IN  { [StackWrite(s, k, U16(s.registers.pc + 2)) EXCEPT
           !.registers.sp = U8(k + 1), !.registers.pc = nnn] }

\* 2nnn - CALL nnn: the sp >= 16 branch assigns pc and falls through to the
\* push.  The push at index 26 stores over sp itself, unsequenced with sp++.
c8_op_call(s, nnn) ==
  LET s1  == IF s.registers.sp >= C8_STACK_SIZE
               THEN [s EXCEPT !.registers.pc = C8_PC_ON_FAULT] ELSE s
      k   == s1.registers.sp
      w   == s1.registers.pc
      s2  == IF k >= C8_STACK_SIZE
               THEN MarkUB(StackWrite(s1, k, w), "stack_write")
               ELSE StackWrite(s1, k, w)
      sps == IF k = 26 THEN { U8(k + 1), U8((w % 256) + 1) } ELSE { U8(k + 1) }
  IN  { [s2 EXCEPT !.registers.sp = sp1, !.registers.pc = nnn] : sp1 \in sps }

\* 3xnn - SE Vx, nn
c8_op_se_vx_nn(s, x, nn) == { AdvancePc(s, IF V(s, x) = nn THEN 4 ELSE 2) }

\* 4xnn - SNE Vx, nn
c8_op_sne_vx_nn(s, x, nn) == { AdvancePc(s, IF V(s, x) # nn THEN 4 ELSE 2) }

\* 5xy0 - SE Vx, Vy
c8_op_se_vx_vy(s, x, y) == { AdvancePc(s, IF V(s, x) = V(s, y) THEN 4 ELSE 2) }

\* 6xnn - LD Vx, nn
c8_op_ld_vx_nn(s, x, nn) == { AdvancePc(SetV(s, x, nn), 2) }

\* 7xnn - ADD Vx, nn
c8_op_add_vx_nn(s, x, nn) == { AdvancePc(SetV(s, x, U8(V(s, x) + nn)), 2) }

\* 8xy0 - LD Vx, Vy
c8_op_ld_vx_vy(s, x, y) == { AdvancePc(SetV(s, x, V(s, y)), 2) }

\* a faulty VF reset that ignores the quirk
VfReset_Always(s) == SetV(s, 15, 0)

\* the VF reset shared by 8xy1, 8xy2 and 8xy3
VfReset(s) == IF HasQuirk(s, C8_QUIRK_VF_RESET) THEN SetV(s, 15, 0) ELSE s

\* 8xy1 - OR Vx, Vy
c8_op_or(s, x, y) == { AdvancePc(VfReset(SetV(s, x, BitOr(V(s, x), V(s, y)))), 2) }

\* 8xy2 - AND Vx, Vy
c8_op_and(s, x, y) == { AdvancePc(VfReset(SetV(s, x, BitAnd(V(s, x), V(s, y)))), 2) }

\* 8xy3 - XOR Vx, Vy
c8_op_xor(s, x, y) == { AdvancePc(VfReset(SetV(s, x, BitXor(V(s, x), V(s, y)))), 2) }

\* 8xy4 - ADD Vx, Vy: VF is written first, then Vx (which may be VF)
c8_op_add_vx_vy(s, x, y) ==
  LET s1 == SetV(s, 15, IF V(s, x) + V(s, y) > 255 THEN 1 ELSE 0)
  IN  { AdvancePc(SetV(s1, x, U8(V(s1, x) + V(s1, y))), 2) }

\* 8xy5 - SUB Vx, Vy
c8_op_sub(s, x, y) ==
  LET s1 == SetV(s, 15, IF V(s, x) > V(s, y) THEN 1 ELSE 0)
  IN  { AdvancePc(SetV(s1, x, U8(V(s1, x) + 256 - V(s1, y))), 2) }

\* a faulty SHR that writes VF before Vx
c8_op_shr_FlagFirst(s, x, y) ==
  LET value == V(s, IF HasQuirk(s, C8_QUIRK_SHIFT) THEN x ELSE y)
  IN  { AdvancePc(SetV(SetV(s, 15, value % 2), x, value \div 2), 2) }

\* 8xy6 - SHR Vx, Vy
c8_op_shr(s, x, y) ==
  LET value == V(s, IF HasQuirk(s, C8_QUIRK_SHIFT) THEN x ELSE y)
  IN  { AdvancePc(SetV(SetV(s, x, value \div 2), 15, value % 2), 2) }

\* 8xy7 - SUBN Vx, Vy
c8_op_subn(s, x, y) ==
  LET s1 == SetV(s, 15, IF V(s, y) > V(s, x) THEN 1 ELSE 0)
  IN  { AdvancePc(SetV(s1, x, U8(V(s1, y) + 256 - V(s1, x))), 2) }

\* 8xyE - SHL Vx, Vy
c8_op_shl(s, x, y) ==
  LET value == V(s, IF HasQuirk(s, C8_QUIRK_SHIFT) THEN x ELSE y)
  IN  { AdvancePc(SetV(SetV(s, x, U8(value * 2)), 15, value \div 128), 2) }

\* 9xy0 - SNE Vx, Vy
c8_op_sne_vx_vy(s, x, y) == { AdvancePc(s, IF V(s, x) # V(s, y) THEN 4 ELSE 2) }

\* Annn - LD I, nnn
c8_op_ld_i_nnn(s, nnn) == { AdvancePc([s EXCEPT !.registers.i = nnn], 2) }

\* Bnnn - JP V0, nnn
c8_op_jp_v0_nnn(s, nnn) ==
  LET jpXNN == HasQuirk(s, C8_QUIRK_BXNN_JUMP)
  IN  { [s EXCEPT !.registers.pc =
           U16(nnn + V(s, IF jpXNN THEN BitAnd(nnn \div 256, 15) ELSE 0))] }

\* a faulty generator that adds an increment to the new byte
c8_op_rnd_Increment(s, x, nn) ==
  LET b0 == s.rng[1]
      b3 == s.rng[4]
      t  == BitXor(b0, b0 \div 2)
      n3 == U8(BitXor(BitXor(b3, t), BitXor(b3 \div 8, U8(t * 2))) + 1)
  IN  { AdvancePc(SetV([s EXCEPT !.rng = << s.rng[2], s.rng[3], b3, n3 >>], x, BitAnd(n3, nn)), 2) }

\* Cxnn - RND Vx, nn
c8_op_rnd(s, x, nn) ==
  LET b0 == s.rng[1]
      b1 == s.rng[2]
      b2 == s.rng[3]
      b3 == s.rng[4]
      t  == BitXor(b0, b0 \div 2)
      n3 == BitXor(BitXor(b3, t), BitXor(b3 \div 8, U8(t * 2)))
  IN  { AdvancePc(SetV([s EXCEPT !.rng = << b1, b2, b3, n3 >>], x, BitAnd(n3, nn)), 2) }

(***************************************************************************)
(* Dxyn - DRW Vx, Vy, n.  DrwLoop is the pixel loop: d is the pair of the  *)
(* display and VF so far, k counts the pixels drawn (row k \div sw, column *)
(* k % sw of the sprite), rows are the sprite bytes.                       *)
(***************************************************************************)
\* a faulty pixel loop that never reports a collision
RECURSIVE DrwLoop_NoCollision(_, _, _, _, _, _, _, _)
DrwLoop_NoCollision(d, cfg, rows, sw, sh, px0, py0, k) ==
  IF k >= sw * sh THEN d
  ELSE LET dx == (px0 + (k % sw)) % cfg.screen_width
           dy == (py0 + (k \div sw)) % cfg.screen_height
           p  == dy * cfg.screen_width + dx
       IN  DrwLoop_NoCollision(
             [d EXCEPT !.display[p] = (@ + Bit(rows[k \div sw], 7 - (k % sw))) % 2],
             cfg, rows, sw, sh, px0, py0, k + 1)

RECURSIVE DrwLoop(_, _, _, _, _, _, _, _)
DrwLoop(d, cfg, rows, sw, sh, px0, py0, k) ==
  IF k >= sw * sh THEN d
  ELSE LET i  == k \div sw
           j  == k % sw
           dx == (px0 + j) % cfg.screen_width
           dy == (py0 + i) % cfg.screen_height
           p  == dy * cfg.screen_width + dx
           sprite_pixel == Bit(rows[i], 7 - j)
           hit == d.display[p] # 0 /\ sprite_pixel # 0
       IN  DrwLoop([ display |-> [d.display EXCEPT ![p] = BitXor(@, sprite_pixel)],
                     vf      |-> IF hit THEN 1 ELSE d.vf ],
                   cfg, rows, sw, sh, px0, py0, k + 1)

\* a faulty draw that spends nothing of the budget
SpendVblank_Free(s) == s

\* --state->vblank, made when the VBlank quirk is on
SpendVblank(s) ==
  IF HasQuirk(s, C8_QUIRK_VBLANK) THEN [s EXCEPT !.vblank = U16(@ + 65535)] ELSE s

c8_op_drw(s, x, y, n) ==
  LET hasVblankQuirk == HasQuirk(s, C8_QUIRK_VBLANK)
      cfg  == s.config
      px0  == V(s, x) % cfg.screen_width
      py0  == V(s, y) % cfg.screen_height
      wrap_sprites  == HasQuirk(s, C8_QUIRK_WRAP_SPRITES)
      sprite_width  == IF wrap_sprites THEN 8 ELSE C8_MIN(8, cfg.screen_width - px0)
      sprite_height == IF wrap_sprites THEN n ELSE C8_MIN(n, cfg.screen_height - py0)
      base == s.registers.i
      outside == sprite_height > 0 /\ base + sprite_height - 1 >= cfg.memory_size
      s1   == SpendVblank(s)
      s2   == IF outside THEN MarkUB(s1, "mem_read") ELSE s1
      rows(b) == [r \in 0..(sprite_height - 1) |->
                    IF base + r < cfg.memory_size THEN s.memory[base + r] ELSE b]
      draw(b) == DrwLoop([display |-> s.display, vf |-> 0], cfg, rows(b),
                         sprite_width, sprite_height, px0, py0, 0)
  IN  IF hasVblankQuirk /\ s.vblank = 0 THEN { s }
      ELSE { AdvancePc([SetV(s2, 15, draw(b).vf) EXCEPT !.display = draw(b).display], 2) :
             b \in IF outside THEN UBBytes ELSE {0} }

\* a faulty SKP that never skips
c8_op_skp_NeverSkips(s, x) == { AdvancePc(s, 2) }

\* Ex9E - SKP Vx
c8_op_skp(s, x) ==
  LET key == V(s, x)
  IN  { AdvancePc(s, IF key <= 15 /\ s.pressed_keys[key] THEN 4 ELSE 2) }

\* ExA1 - SKNP Vx
c8_op_sknp(s, x) ==
  LET key == V(s, x)
  IN  { AdvancePc(s, IF ~(key <= 15 /\ s.pressed_keys[key]) THEN 4 ELSE 2) }

\* Fx07 - LD Vx, DT
c8_op_ld_vx_dt(s, x) == { AdvancePc(SetV(s, x, s.registers.dt), 2) }

\* a faulty LD Vx, KEY that takes the highest pressed key
c8_op_ld_vx_key_Highest(s, x) ==
  LET pressed == { k \in 0..(C8_KEY_MAX - 1) : s.pressed_keys[k] }
      last    == CHOOSE k \in pressed : \A o \in pressed : k >= o
  IN  IF pressed = {} THEN { s } ELSE { AdvancePc(SetV(s, x, last), 2) }

\* Fx0A - LD Vx, KEY
c8_op_ld_vx_key(s, x) ==
  LET pressed == { k \in 0..(C8_KEY_MAX - 1) : s.pressed_keys[k] }
      first   == CHOOSE k \in pressed : \A o \in pressed : k <= o
  IN  IF pressed = {} THEN { s } ELSE { AdvancePc(SetV(s, x, first), 2) }

\* Fx15 - LD DT, Vx
c8_op_ld_dt_vx(s, x) == { AdvancePc([s EXCEPT !.registers.dt = V(s, x)], 2) }

\* Fx18 - LD ST, Vx
c8_op_ld_st_vx(s, x) == { AdvancePc([s EXCEPT !.registers.st = V(s, x)], 2) }

\* Fx1E - ADD I, Vx
c8_op_add_i_vx(s, x) ==
  LET sum == U16(s.registers.i + V(s, x))
      s1  == SetV([s EXCEPT !.registers.i = sum], 15, IF sum > 4095 THEN 1 ELSE 0)
  IN  { AdvancePc([s1 EXCEPT !.registers.i = sum % 4096], 2) }

\* Fx29 - LD I, FONT(Vx)
c8_op_ld_i_font_vx(s, x) ==
  { AdvancePc([s EXCEPT !.registers.i = C8_MEM_FONT_OFFSET + BitAnd(V(s, x), 15) * 5], 2) }

\* Fx33 - BCD Vx
\* a faulty BCD that does not reduce the tens digit modulo 10
c8_op_bcd_TensOverflow(s, x) ==
  LET i  == s.registers.i
      vx == V(s, x)
      s1 == MemWrite(s, i, (vx \div 100) % 10)
      s2 == MemWrite(s1, i + 1, vx \div 10)
      s3 == MemWrite(s2, i + 2, vx % 10)
  IN  { AdvancePc(s3, 2) }

c8_op_bcd(s, x) ==
  LET i  == s.registers.i
      vx == V(s, x)
      s1 == MemWrite(s, i, (vx \div 100) % 10)
      s2 == MemWrite(s1, i + 1, (vx \div 10) % 10)
      s3 == MemWrite(s2, i + 2, vx % 10)
  IN  { AdvancePc(s3, 2) }

(***************************************************************************)
(* The bulk transfers Fx55 and Fx65.  TruncX is the truncation both apply  *)
(* to x: the assignment converts mem_size - i - 1 to uint8_t.              *)
(***************************************************************************)
TruncX(s, x) ==
  IF s.registers.i + x >= s.config.memory_size
    THEN U8(s.config.memory_size + 65536 - s.registers.i - 1)
    ELSE x

\* a faulty increment of I that looks at no quirk
LoadStoreIncI_NoQuirks(s, x) == [s EXCEPT !.registers.i = U16(@ + x + 1)]

\* the increment of I that ends both transfers
LoadStoreIncI(s, x) ==
  LET shouldIncI == ~HasQuirk(s, C8_QUIRK_LOAD_STORE_NO_INC_I)
      incByX     == HasQuirk(s, C8_QUIRK_LOAD_STORE_INC_I_BY_X)
  IN  IF shouldIncI
        THEN [s EXCEPT !.registers.i = U16(@ + x + (IF incByX THEN 0 ELSE 1))]
        ELSE s

\* memcpy(memory + i, v, n): byte k of the source is v[k] while k < 16; a
\* longer copy (only when i is outside memory) reads on past v
RECURSIVE StoreBytes(_, _, _, _)
StoreBytes(s, i, n, k) ==
  IF k >= n THEN s
  ELSE IF k > 15 THEN MarkUB(MarkUB(s, "mem_write"), "v_read")
  ELSE StoreBytes(MemWrite(s, i + k, V(s, k)), i, n, k + 1)

\* byte k of the storage that starts at registers.v, by the layout of struct
\* c8_registers; b is the byte of whatever follows the struct
RegByteRead(s, k, b) ==
  LET r == s.registers IN
  IF k < 16 THEN V(s, k)
  ELSE IF k = 16 THEN r.pc % 256
  ELSE IF k = 17 THEN r.pc \div 256
  ELSE IF k = 18 THEN r.i % 256
  ELSE IF k = 19 THEN r.i \div 256
  ELSE IF k = 20 THEN r.sp
  ELSE IF k = 21 THEN r.dt
  ELSE IF k = 22 THEN r.st
  ELSE b

\* the distance from the end of the memory block to the display block when
\* the allocator places the second calloc of c8_reset right after the first
HeapGap == 16

\* a copy of n bytes to memory + i that runs past the memory block is
\* undefined: the bytes are lost in the heap (the machine t), or they land
\* in the display block that follows the memory block
HeapSpill(s, t, i, n) ==
  IF i + n <= s.config.memory_size THEN { t }
  ELSE { t } \cup
       { [t EXCEPT !.display =
            [p \in DOMAIN t.display |->
               LET k == p + s.config.memory_size + HeapGap - i
               IN  IF 0 <= k /\ k < n THEN RegByteRead(s, k, b) ELSE t.display[p]]] :
         b \in UBBytes }

\* Fx55 - LD [I], Vx
c8_op_ld_i_vx(s, x0) ==
  LET i == s.registers.i
      x == TruncX(s, x0)
  IN  { AdvancePc(LoadStoreIncI(t, x), 2) :
        t \in HeapSpill(s, StoreBytes(s, i, x + 1, 0), i, x + 1) }

\* the store of byte b at offset k of registers.v, by the layout of struct
\* c8_registers: v is followed by pc, i, sp, dt, st and one padding byte
RegByteWrite(s, k, b) ==
  LET r == s.registers IN
  IF k < 16 THEN SetV(s, k, b)
  ELSE IF k = 16 THEN [s EXCEPT !.registers.pc = (r.pc \div 256) * 256 + b]
  ELSE IF k = 17 THEN [s EXCEPT !.registers.pc = b * 256 + (r.pc % 256)]
  ELSE IF k = 18 THEN [s EXCEPT !.registers.i = (r.i \div 256) * 256 + b]
  ELSE IF k = 19 THEN [s EXCEPT !.registers.i = b * 256 + (r.i % 256)]
  ELSE IF k = 20 THEN [s EXCEPT !.registers.sp = b]
  ELSE IF k = 21 THEN [s EXCEPT !.registers.dt = b]
  ELSE IF k = 22 THEN [s EXCEPT !.registers.st = b]
  ELSE IF k = 23 THEN s
  ELSE [s EXCEPT !.crashed = TRUE]

\* memcpy(v, memory + i, n): a byte from outside memory is the heap byte b
RECURSIVE LoadBytes(_, _, _, _, _)
LoadBytes(s, i, n, k, b) ==
  IF k >= n \/ s.crashed THEN s
  ELSE LET byte == IF i + k < s.config.memory_size THEN s.memory[i + k] ELSE b
           s1   == IF i + k < s.config.memory_size THEN s ELSE MarkUB(s, "mem_read")
           s2   == IF k > 15 THEN MarkUB(s1, "v_write") ELSE s1
       IN  LoadBytes(RegByteWrite(s2, k, byte), i, n, k + 1, b)

\* Fx65 - LD Vx, [I]
c8_op_ld_vx_i(s, x0) ==
  LET i == s.registers.i
      x == TruncX(s, x0)
      outside == i + x >= s.config.memory_size
  IN  { AdvancePc(LoadStoreIncI(LoadBytes(s, i, x + 1, 0, b), x), 2) :
        b \in IF outside THEN UBBytes ELSE {0} }

(***************************************************************************)
(* The base handler.  Handled(op) is the value h it returns and            *)
(* c8_chip8_op_handler(s, op) the machine it leaves; the fields of op are  *)
(* its nibbles: x = (op & 0x0F00) >> 8, y = (op & 0x00F0) >> 4.            *)
(***************************************************************************)
OpX(op) == (op \div 256) % 16

OpY(op) == (op \div 16) % 16

OpN(op) == op % 16

OpNN(op) == op % 256

OpNNN(op) == op % 4096

Handled(op) ==
  LET hi == op \div 4096 IN
  CASE hi \in {5, 9} -> OpN(op) = 0
    [] hi = 8  -> OpN(op) \in {0, 1, 2, 3, 4, 5, 6, 7, 14}
    [] hi = 14 -> OpNN(op) \in {158, 161}
    [] hi = 15 -> OpNN(op) \in {7, 10, 21, 24, 30, 41, 51, 85, 101}
    [] OTHER   -> TRUE

Op8xy(s, op) ==
  LET x == OpX(op)
      y == OpY(op)
      n == OpN(op) IN
  CASE n = 0  -> c8_op_ld_vx_vy(s, x, y)
    [] n = 1  -> c8_op_or(s, x, y)
    [] n = 2  -> c8_op_and(s, x, y)
    [] n = 3  -> c8_op_xor(s, x, y)
    [] n = 4  -> c8_op_add_vx_vy(s, x, y)
    [] n = 5  -> c8_op_sub(s, x, y)
    [] n = 6  -> c8_op_shr(s, x, y)
    [] n = 7  -> c8_op_subn(s, x, y)
    [] n = 14 -> c8_op_shl(s, x, y)
    [] OTHER  -> { s }

OpFx(s, op) ==
  LET x  == OpX(op)
      nn == OpNN(op) IN
  CASE nn = 7   -> c8_op_ld_vx_dt(s, x)
    [] nn = 10  -> c8_op_ld_vx_key(s, x)
    [] nn = 21  -> c8_op_ld_dt_vx(s, x)
    [] nn = 24  -> c8_op_ld_st_vx(s, x)
    [] nn = 30  -> c8_op_add_i_vx(s, x)
    [] nn = 41  -> c8_op_ld_i_font_vx(s, x)
    [] nn = 51  -> c8_op_bcd(s, x)
    [] nn = 85  -> c8_op_ld_i_vx(s, x)
    [] nn = 101 -> c8_op_ld_vx_i(s, x)
    [] OTHER    -> { s }

Op0nnn(s, op) ==
  IF op = 224 THEN c8_op_cls(s)
  ELSE IF op = 238 THEN c8_op_ret(s)
  ELSE c8_op_sys(s, op)

\* a faulty decoder that runs SE Vx, Vy on every word 5xyN
Op5xy_AnyN(s, op) == c8_op_se_vx_vy(s, OpX(op), OpY(op))

Op5xy(s, op) ==
  IF OpN(op) = 0 THEN c8_op_se_vx_vy(s, OpX(op), OpY(op)) ELSE { s }

Op9xy(s, op) ==
  IF OpN(op) = 0 THEN c8_op_sne_vx_vy(s, OpX(op), OpY(op)) ELSE { s }

OpEx(s, op) ==
  IF OpNN(op) = 158 THEN c8_op_skp(s, OpX(op))
  ELSE IF OpNN(op) = 161 THEN c8_op_sknp(s, OpX(op))
  ELSE { s }

c8_chip8_op_handler(s, op) ==
  LET hi == op \div 4096
      x  == OpX(op)
      y  == OpY(op) IN
  CASE hi = 0  -> Op0nnn(s, op)
    [] hi = 1  -> c8_op_jp_nnn(s, OpNNN(op))
    [] hi = 2  -> c8_op_call(s, OpNNN(op))
    [] hi = 3  -> c8_op_se_vx_nn(s, x, OpNN(op))
    [] hi = 4  -> c8_op_sne_vx_nn(s, x, OpNN(op))
    [] hi = 5  -> Op5xy(s, op)
    [] hi = 6  -> c8_op_ld_vx_nn(s, x, OpNN(op))
    [] hi = 7  -> c8_op_add_vx_nn(s, x, OpNN(op))
    [] hi = 8  -> Op8xy(s, op)
    [] hi = 9  -> Op9xy(s, op)
    [] hi = 10 -> c8_op_ld_i_nnn(s, OpNNN(op))
    [] hi = 11 -> c8_op_jp_v0_nnn(s, OpNNN(op))
    [] hi = 12 -> c8_op_rnd(s, x, OpNN(op))
    [] hi = 13 -> c8_op_drw(s, x, y, OpN(op))
    [] hi = 14 -> OpEx(s, op)
    [] OTHER   -> OpFx(s, op)

(***************************************************************************)
(* c8_step: fetch, walk the handler chain, then the bounds check on pc.    *)
(***************************************************************************)
\* the handler named h applied to op: whether it handled, and the results
\* a handler of the host, of type c8_op_handler: it recognises the words
\* 6xnn, for which it loads Vx with the complement of nn, and the words 5xyN
\* with N # 0, which it skips
HostHandled(op) == op \div 4096 = 6 \/ (op \div 4096 = 5 /\ OpN(op) # 0)

host_op_handler(s, op) ==
  IF ~HostHandled(op) THEN { s }
  ELSE IF op \div 4096 = 6
    THEN { AdvancePc(SetV(s, OpX(op), 255 - OpNN(op)), 2) }
    ELSE { AdvancePc(s, 2) }

\* the call h(state, op) of a handler of the chain: what it returns and the
\* machines it can leave
CallHandler(h, s, op) ==
  IF h = "c8_chip8_op_handler"
    THEN [ handled |-> Handled(op), out |-> c8_chip8_op_handler(s, op) ]
    ELSE [ handled |-> HostHandled(op), out |-> host_op_handler(s, op) ]

\* a faulty chain walk that goes on after a handler reported handled
RECURSIVE RunHandlers_NoBreak(_, _, _)
RunHandlers_NoBreak(s, op, k) ==
  IF k > Len(s.config.op_handlers) THEN { s }
  ELSE UNION { RunHandlers_NoBreak(t, op, k + 1) :
               t \in CallHandler(s.config.op_handlers[k], s, op).out }

RECURSIVE RunHandlers(_, _, _)
RunHandlers(s, op, k) ==
  IF k > Len(s.config.op_handlers) THEN { s }
  ELSE LET r == CallHandler(s.config.op_handlers[k], s, op)
       IN  IF r.handled THEN r.out
           ELSE UNION { RunHandlers(t, op, k + 1) : t \in r.out }

\* the words the fetch at pc can return
Fetch(s) ==
  LET pc == s.registers.pc
  IN  { hi * 256 + lo : hi \in MemRead(s, pc), lo \in MemRead(s, pc + 1) }

\* a faulty c8_step without the final check
PcCheck_Missing(s) == s

\* the check that ends c8_step
PcCheck(s) ==
  IF s.registers.pc >= s.config.memory_size
    THEN [s EXCEPT !.registers.pc = C8_PC_ON_FAULT]
    ELSE s

c8_step(s) ==
  IF IsNull(s) THEN { s }
  ELSE
  LET pc == s.registers.pc
      s1 == IF pc + 1 >= s.config.memory_size THEN MarkUB(s, "fetch") ELSE s
  IN  UNION { { PcCheck(t) : t \in RunHandlers([s1 EXCEPT !.ops = Append(@, op)], op, 1) } :
              op \in Fetch(s) }

\* c8_step_frame: n more steps from each machine of the set S; a crashed
\* machine makes no further step
RECURSIVE StepN(_, _)
StepN(S, n) ==
  IF n = 0 THEN S
  ELSE StepN(UNION { IF t.crashed THEN { t } ELSE c8_step(t) : t \in S }, n - 1)

c8_step_frame(s) ==
  IF IsNull(s) THEN { s } ELSE StepN({ s }, s.config.cycles_per_frame)

(***************************************************************************)
(* The other host entry points.                                            *)
(***************************************************************************)
\* a faulty size that does not look at the room left in memory
LoadRomSize_NoLimit(s, rom) == Len(rom)

\* the number of bytes c8_load_rom copies: int sz = C8_MIN(size, ...)
LoadRomSize(s, rom) == C8_MIN(Len(rom), s.config.memory_size - C8_ROM_OFFSET)

\* c8_load_rom(state, rom, size), rom being a sequence of size bytes (never
\* a null pointer).  memmove(memory + 0x200, rom, sz) with sz bytes that do
\* not fit the buffer, or a negative sz, destroys the heap.
c8_load_rom(s, rom) ==
  IF IsNull(s) THEN { s }
  ELSE
  LET sz == LoadRomSize(s, rom)
  IN  IF sz < 0 \/ C8_ROM_OFFSET + sz > s.config.memory_size
        THEN { [s EXCEPT !.crashed = TRUE] }
        ELSE { [s EXCEPT !.memory = [a \in DOMAIN s.memory |->
                                      IF a >= C8_ROM_OFFSET /\ a < C8_ROM_OFFSET + sz
                                        THEN rom[a - C8_ROM_OFFSET + 1]
                                        ELSE s.memory[a]]] }

\* the bytes of a 32-bit seed in the union (little-endian), and back
SeedBytes(seed) ==
  << seed % 256, (seed \div 256) % 256, (seed \div 65536) % 256, seed \div 16777216 >>

\* c8_set_rng_seed
c8_set_rng_seed(s, seed) ==
  IF IsNull(s) THEN { s } ELSE { [s EXCEPT !.rng = SeedBytes(seed)] }

\* c8_get_rng_seed
c8_get_rng_seed(s) ==
  IF IsNull(s) THEN 0
  ELSE s.rng[1] + 256 * s.rng[2] + 65536 * s.rng[3] + 16777216 * s.rng[4]

(***************************************************************************)
(* c8_update_timers.  delta_time is a float; the model holds a float as    *)
(* a whole number of units of 2^-19 ms, FloatOne units being 1.0.  The     *)
(* period 1000.f / 60.f is the float 16.666666030883789, which is          *)
(* MS_PER_VBLANK = 8738133 units exactly.  Every sum, difference and       *)
(* product of whole numbers of units is a whole number of units, and is a  *)
(* float when it has at most 24 significant bits: FloatRound rounds it to  *)
(* the nearest such number, ties to the even significand, as the float     *)
(* arithmetic of the C code does.                                          *)
(***************************************************************************)
VBLANK_HZ == 60

MS_PER_VBLANK == 8738133

FloatOne == 524288

\* the float of a whole number of milliseconds
FloatOfMs(ms) == ms * FloatOne

\* the position of the leading bit of k >= 1
FloatLog2(k) == CHOOSE e \in 0..29 : 2^e <= k /\ k < 2^(e + 1)

\* the distance between neighbouring floats at magnitude a, in units
FloatUlp(a) == IF a < 2^24 THEN 1 ELSE 2^(FloatLog2(a) - 23)

\* a result n of float arithmetic, rounded to a float
FloatRound(n) ==
  LET a    == IF n < 0 THEN 0 - n ELSE n
      u    == FloatUlp(a)
      lo   == (a \div u) * u
      r    == a - lo
      up   == 2 * r > u \/ (2 * r = u /\ (a \div u) % 2 = 1)
      m    == IF up THEN lo + u ELSE lo
  IN  IF n < 0 THEN 0 - m ELSE m

\* (int) (n / m) for floats n >= 0 and m > 0: the quotient is rounded to a
\* float before it is truncated, so a quotient within half a float step
\* below a whole number k becomes k
FloatQuotientToInt(n, m) ==
  LET k    == n \div m + 1
      e    == FloatLog2(k)
      \* twice the inverse of the float step below k
      g    == IF k = 2^e THEN 2^(25 - e) ELSE 2^(24 - e)
  IN  IF m - (n % m) <= m \div g THEN k ELSE k - 1

\* (int) (n / m) for a float n of either sign
FloatDivToInt(n, m) ==
  IF n < 0 THEN 0 - FloatQuotientToInt(0 - n, m) ELSE FloatQuotientToInt(n, m)

\* the accumulator update x -= m * k: rounded after the product and after
\* the difference, or once when the compiler contracts the two into a fused
\* multiply-subtract
FloatSubProduct(x, m, k) ==
  { FloatRound(x - FloatRound(m * k)), FloatRound(x - m * k) }

\* a faulty c8_update_timers that forgets the leftover fraction
c8_update_timers_DropsFraction(s, delta_time) ==
  IF IsNull(s) THEN { s }
  ELSE
  LET acc           == FloatRound(s.delta_time + delta_time)
      ticks_elapsed == FloatDivToInt(acc, MS_PER_VBLANK)
  IN  { [s EXCEPT !.registers.dt = U8(C8_MAX(@ - ticks_elapsed, 0)),
                  !.registers.st = U8(C8_MAX(@ - ticks_elapsed, 0)),
                  !.delta_time = 0,
                  !.vblank = U16(ticks_elapsed)] }

c8_update_timers(s, delta_time) ==
  IF IsNull(s) THEN { s }
  ELSE
  LET acc           == FloatRound(s.delta_time + delta_time)
      ticks_elapsed == FloatDivToInt(acc, MS_PER_VBLANK)
      new_dt        == s.registers.dt - ticks_elapsed
      new_st        == s.registers.st - ticks_elapsed
  IN  { [s EXCEPT !.registers.dt = U8(C8_MAX(new_dt, 0)),
                  !.registers.st = U8(C8_MAX(new_st, 0)),
                  !.delta_time = rest,
                  !.vblank = U16(ticks_elapsed)] :
        rest \in FloatSubProduct(acc, MS_PER_VBLANK, ticks_elapsed) }

\* c8_set_registers
c8_set_registers(s, regs) ==
  IF IsNull(s) THEN { s } ELSE { [s EXCEPT !.registers = regs] }

\* c8_press_key
c8_press_key(s, key) ==
  IF IsNull(s) THEN { s } ELSE { [s EXCEPT !.pressed_keys[key] = TRUE] }

\* c8_release_key
c8_release_key(s, key) ==
  IF IsNull(s) THEN { s } ELSE { [s EXCEPT !.pressed_keys[key] = FALSE] }

\* a faulty c8_destroy that frees through a null handle
c8_destroy_NoNullCheck(s) ==
  { [s EXCEPT !.live = @ \ {"display", "state"}, !.crashed = IsNull(s)] }

\* c8_destroy: free(state->display); free(state); memory is not freed
c8_destroy(s) ==
  IF IsNull(s) THEN { s } ELSE { [s EXCEPT !.live = @ \ {"display", "state"}] }

\* c8_get_machine_config: &state->config
c8_get_machine_config(s) == IF IsNull(s) THEN nullptr ELSE s.config

\* c8_get_registers: &state->registers
c8_get_registers(s) == IF IsNull(s) THEN nullptr ELSE s.registers

\* c8_get_display(state, &display_size), display_size never a null pointer:
\* the buffer returned and the size stored
c8_get_display(s) ==
  IF IsNull(s) THEN nullptr
  ELSE [ display |-> s.display,
         display_size |-> s.config.screen_width * s.config.screen_height ]

\* c8_set_display(state, display, display_size), display being a sequence of
\* display_size bytes (never a null pointer); the assert ends the process
c8_set_display(s, display) ==
  IF IsNull(s) THEN { s }
  ELSE IF Len(display) > s.config.screen_width * s.config.screen_height
    THEN { [s EXCEPT !.crashed = TRUE] }
  ELSE { [s EXCEPT !.display = [p \in DOMAIN s.display |->
                                  IF p < Len(display) THEN display[p + 1]
                                  ELSE s.display[p]]] }

\* c8_get_memory: state->memory
c8_get_memory(s) == IF IsNull(s) THEN nullptr ELSE s.memory

(***************************************************************************)
(* The host.  It creates one machine and then calls the entry points in    *)
(* any order, with ROMs, time deltas, keys and seeds drawn from the small  *)
(* sets below.                                                             *)
(***************************************************************************)
\* the instruction words ROMs are made of
RomOps ==
  { 224,      \* 00E0 CLS
    238,      \* 00EE RET
    4608,     \* 1200 JP 0x200
    4613,     \* 1205 JP 0x205, an odd address
    4615,     \* 1207 JP 0x207, the last byte of memory
    8704,     \* 2200 CALL 0x200
    20481,    \* 5001 not an instruction
    24831,    \* 60FF LD V0, 0xFF
    40960,    \* A000 LD I, 0x000
    45823,    \* B2FF JP V0, 0x2FF
    49407,    \* C0FF RND V0, 0xFF
    53249,    \* D001 DRW V0, V0, 1
    61450,    \* F00A LD V0, KEY
    61461,    \* F015 LD DT, V0
    61491,    \* F033 BCD V0
    61781 }   \* F155 LD [I], V1

\* the instruction words that set a program up; a ROM is one word of
\* RomOps, or one setup word followed by one word of RomOps, or the call and
\* return 2202 00EE (CALL 0x202, RET)
SetupOps ==
  { 24831,    \* 60FF LD V0, 0xFF
    40960 }   \* A000 LD I, 0x000

RomBytes(ws) ==
  [k \in 1..(2 * Len(ws)) |->
     IF k % 2 = 1 THEN ws[(k + 1) \div 2] \div 256 ELSE ws[k \div 2] % 256]

Roms ==
  { RomBytes(<< a >>) : a \in RomOps } \cup
  { RomBytes(<< a, b >>) : a \in SetupOps, b \in RomOps } \cup
  { RomBytes(<< 8706, 238 >>) }

Deltas == {40}

Keys == {3}

Seeds == {16909060}

\* how many RND instructions a run executes
MaxRnd == 2

\* how many host calls with an undefined access a run makes
MaxUB == 2

\* how many c8_reset calls
MaxResets == 1

\* how many timer, key and seed calls
MaxEvents == 1

(***************************************************************************)
(* state is the machine, last_call the entry point called last.  The       *)
(* counters bound the run: resets counts the c8_reset calls, and since the *)
(* last reset rnds counts the RND instructions executed, ubs the steps     *)
(* with an undefined access and events the timer, key and seed calls.      *)
(* hist is the history the fourth host keeps and twin the second machine   *)
(* of the fifth host; the other hosts have neither.                        *)
(***************************************************************************)
VARIABLES state, last_call, rnds, ubs, resets, events, hist, twin

vars == << state, last_call, rnds, ubs, resets, events, hist, twin >>

\* the history the fourth host below keeps of its run: the registers it
\* started the timers with, the time it passed to c8_update_timers, the
\* ticks c8_update_timers counted and the DRW instructions that drew.  The
\* other hosts keep none.
NoHistory == [start |-> ResetRegisters, elapsed |-> 0, ticks |-> 0, draws |-> 0]

\* a host call starts with the observation fields cleared
Enter(s) == [s EXCEPT !.ub = {}, !.ops = << >>]

\* the RND instructions among the words ws
RndCount(ws) == Cardinality({ k \in DOMAIN ws : ws[k] \div 4096 = 12 })

Init ==
  /\ state \in UNION { c8_create(cfg) : cfg \in Configs }
  /\ last_call = "c8_create"
  /\ rnds = 0
  /\ ubs = 0
  /\ resets = 0
  /\ events = 0
  /\ hist = NoHistory
  /\ twin = nullptr

Reset ==
  /\ ~state.crashed
  /\ resets < MaxResets
  /\ state' \in c8_reset(Enter(state))
  /\ last_call' = "c8_reset"
  /\ resets' = resets + 1
  /\ rnds' = 0
  /\ ubs' = 0
  /\ events' = 0
  /\ UNCHANGED << hist, twin >>

\* the host loads a ROM right after it created or reset the machine
LoadRom ==
  /\ ~state.crashed
  /\ last_call \in {"c8_create", "c8_reset"}
  /\ \E rom \in Roms : state' \in c8_load_rom(Enter(state), rom)
  /\ last_call' = "c8_load_rom"
  /\ UNCHANGED << rnds, ubs, resets, events >>
  /\ UNCHANGED << hist, twin >>

Step ==
  /\ ~state.crashed
  /\ rnds < MaxRnd
  /\ ubs < MaxUB
  /\ state' \in c8_step(Enter(state))
  /\ last_call' = "c8_step"
  /\ rnds' = rnds + RndCount(state'.ops)
  /\ ubs' = ubs + (IF state'.ub = {} THEN 0 ELSE 1)
  /\ UNCHANGED << resets, events >>
  /\ UNCHANGED << hist, twin >>

StepFrame ==
  /\ ~state.crashed
  /\ rnds < MaxRnd
  /\ ubs < MaxUB
  /\ state' \in c8_step_frame(Enter(state))
  /\ last_call' = "c8_step_frame"
  /\ rnds' = rnds + RndCount(state'.ops)
  /\ ubs' = ubs + (IF state'.ub = {} THEN 0 ELSE 1)
  /\ UNCHANGED << resets, events >>
  /\ UNCHANGED << hist, twin >>

UpdateTimers ==
  /\ ~state.crashed
  /\ events < MaxEvents
  /\ \E d \in Deltas : state' \in c8_update_timers(Enter(state), FloatOfMs(d))
  /\ last_call' = "c8_update_timers"
  /\ events' = events + 1
  /\ UNCHANGED << rnds, ubs, resets >>
  /\ UNCHANGED << hist, twin >>

PressKey ==
  /\ ~state.crashed
  /\ events < MaxEvents
  /\ \E k \in Keys : state' \in c8_press_key(Enter(state), k)
  /\ last_call' = "c8_press_key"
  /\ events' = events + 1
  /\ UNCHANGED << rnds, ubs, resets >>
  /\ UNCHANGED << hist, twin >>

ReleaseKey ==
  /\ ~state.crashed
  /\ events < MaxEvents
  /\ \E k \in Keys : state' \in c8_release_key(Enter(state), k)
  /\ last_call' = "c8_release_key"
  /\ events' = events + 1
  /\ UNCHANGED << rnds, ubs, resets >>
  /\ UNCHANGED << hist, twin >>

SetRngSeed ==
  /\ ~state.crashed
  /\ events < MaxEvents
  /\ \E seed \in Seeds : state' \in c8_set_rng_seed(Enter(state), seed)
  /\ last_call' = "c8_set_rng_seed"
  /\ events' = events + 1
  /\ UNCHANGED << rnds, ubs, resets >>
  /\ UNCHANGED << hist, twin >>

Next ==
  \/ Reset
  \/ LoadRom
  \/ Step
  \/ StepFrame
  \/ UpdateTimers
  \/ PressKey
  \/ ReleaseKey
  \/ SetRngSeed

Spec == Init /\ [][Next]_vars

(***************************************************************************)
(* A second host, for claims about one instruction: it creates a machine,  *)
(* loads a ROM of one instruction word, sets the registers and makes one   *)
(* step.                                                                   *)
(***************************************************************************)
\* the words 5xyN, 8xyN, 9xyN, ExNN and FxNN with x = 1 and y = 2
InsnOps ==
  { hi * 4096 + 288 + n : hi \in {5, 8, 9}, n \in 0..15 } \cup
  { hi * 4096 + 256 + nn : hi \in {14, 15}, nn \in 0..255 }

InsnRegs ==
  { [ResetRegisters EXCEPT !.v = vv, !.i = 514] :
    vv \in { [k \in 0..15 |-> 0], [k \in 0..15 |-> (37 * k + 201) % 256] } }

\* the quirk bitsets of the machines that make one step
InsnQuirkSets == QuirkSets \cup { { C8_QUIRK_LOAD_STORE_INC_I_BY_X } }

InsnConfigs ==
  { [ op_handlers |-> << "c8_chip8_op_handler" >>, quirks |-> q,
      memory_size |-> memory_size, cycles_per_frame |-> cycles_per_frame,
      screen_width |-> screen_width, screen_height |-> screen_height ] :
    q \in InsnQuirkSets }

\* the register numbers of the words below: two ordinary registers and VF
InsnXY == {1, 2, 15}

\* the arithmetic words 8xyN, N in 1..7 or E, for x and y in InsnXY
AluOps ==
  { 32768 + 256 * x + 16 * y + n : x \in InsnXY, y \in InsnXY, n \in (1..7) \cup {14} }

\* the words Fx33, Fx55 and Fx65 for x = 0 and x in InsnXY
BulkOps ==
  { 61440 + 256 * x + nn : x \in {0} \cup InsnXY, nn \in {51, 85, 101} }

\* values of I for the bulk words: inside memory, the first address past
\* it, and the last value of the register
BulkRegs ==
  { [regs EXCEPT !.i = i] : regs \in InsnRegs, i \in {514, memory_size, 65535} }

\* the register files for BCD V1: every value of V1
BcdRegs ==
  { [ResetRegisters EXCEPT !.v[1] = b, !.i = 514] : b \in 0..255 }

\* the machines with a handler of the host in the chain, before or after the
\* base handler or alone, and the machine with no handler
ChainConfigs ==
  { [ op_handlers |-> hs, quirks |-> C8_QUIRK_NONE,
      memory_size |-> memory_size, cycles_per_frame |-> cycles_per_frame,
      screen_width |-> screen_width, screen_height |-> screen_height ] :
    hs \in { << "host_op_handler", "c8_chip8_op_handler" >>,
             << "c8_chip8_op_handler", "host_op_handler" >>,
             << "host_op_handler" >>, << >> } }

\* the words stepped by those machines: CLS, JP 0x204, SE V1, V2, 5121,
\* LD V1, 0x2A, ADD V1, 1 and 8128
ChainOps == { 224, 4612, 20768, 20769, 24874, 28929, 33064 }

\* words of the other classes: SYS 0x123, CLS, SE V1, 0x00 and 0xEE, SNE V1,
\* 0x00 and 0xEE, LD V1, 0x55, ADD V1, 1, LD I, 0x123 and RND V1, 0xFF
PcOps == { 291, 224, 12544, 12782, 16640, 16878, 24917, 28929, 41251, 49663 }

\* the words that look at the keys, SKP V1, SKNP V1 and LD V1, KEY, and the
\* pairs of keys the host presses before it steps them: key 0 twice, or
\* key 7 and then key 3
KeyOps == { 57758, 57761, 61706 }

KeyPairs == { << 0, 0 >>, << 7, 3 >> }

\* the draws: DRW V1, V2, n for n = 0, 1, 3 and 5, and DRW VF, VF, 2
DrawOps == { 53536, 53537, 53539, 53541, 57330 }

\* the registers of the draws: V1 and VF are the column and V2 the row, at
\* the origin, near the right and bottom edges and past them; I is at the
\* font sprite of the digit 0 (F0 90 90 90 F0) or two bytes before the end
\* of memory
DrawRegs ==
  { [ResetRegisters EXCEPT !.v[1] = at[1], !.v[2] = at[2], !.v[15] = at[1], !.i = i] :
    at \in { << 0, 0 >>, << 7, 2 >>, << 13, 6 >> },
    i \in { C8_MEM_FONT_OFFSET, memory_size - 2 } }

\* the images the host sets before a draw: none, every pixel lit, and a
\* chequered top
DrawImages ==
  { << >>,
    [k \in 1..(screen_width * screen_height) |-> 1],
    [k \in 1..(2 * screen_width) |-> k % 2] }

\* the pairs of an instruction word and the registers it is stepped with
InsnCases ==
  { << op, regs >> : op \in InsnOps \cup AluOps \cup PcOps, regs \in InsnRegs } \cup
  { << op, regs >> : op \in BulkOps, regs \in BulkRegs } \cup
  { << 61747, regs >> : regs \in BcdRegs }

\* the pairs of a machine configuration and such a pair
InsnSetups ==
  (InsnConfigs \X InsnCases) \cup (ChainConfigs \X (ChainOps \X InsnRegs))

InsnInit ==
  /\ \/ \E setup \in InsnSetups :
          LET cfg == setup[1]  case == setup[2] IN
          \E c \in c8_create(cfg) :
            \E t \in c8_load_rom(c, RomBytes(<< case[1] >>)) :
              state \in c8_set_registers(t, case[2])
     \/ \E cfg \in InsnConfigs, op \in KeyOps, regs \in InsnRegs, keys \in KeyPairs :
          \E c \in c8_create(cfg) :
            \E t \in c8_load_rom(c, RomBytes(<< op >>)) :
              \E u \in c8_press_key(t, keys[1]) :
                \E w \in c8_press_key(u, keys[2]) :
                  state \in c8_set_registers(w, regs)
     \/ \E cfg \in Configs, op \in DrawOps, regs \in DrawRegs, img \in DrawImages :
          \E c \in c8_create(cfg) :
            \E t \in c8_load_rom(c, RomBytes(<< op >>)) :
              \E u \in c8_set_display(t, img) :
                state \in c8_set_registers(u, regs)
  /\ last_call = "c8_set_registers"
  /\ rnds = 0
  /\ ubs = 0
  /\ resets = 0
  /\ events = 0
  /\ hist = NoHistory
  /\ twin = nullptr

InsnStep ==
  /\ last_call = "c8_set_registers"
  /\ state' \in c8_step(Enter(state))
  /\ last_call' = "c8_step"
  /\ UNCHANGED << rnds, ubs, resets, events >>
  /\ UNCHANGED << hist, twin >>

InsnNext == InsnStep

InsnSpec == InsnInit /\ [][InsnNext]_vars

(***************************************************************************)
(* A third host, for claims about the handle: its handle is a machine or   *)
(* null, and it makes up to MaxCalls calls of any entry point (counted in  *)
(* events), none after c8_destroy.                                         *)
(***************************************************************************)
\* how many calls the third host makes
MaxCalls == 3

\* the ROMs of the third host: empty, one instruction, the same draw twice,
\* A208 F155 (LD I, 0x208 and LD [I], V1, a store at the end of memory), and
\* ten bytes, two more than the room from 0x200 to the end of memory
HandleRoms ==
  { << >>, RomBytes(<< 24831 >>), RomBytes(<< 53249, 53249 >>),
    RomBytes(<< 41480, 61781 >>), [k \in 1..10 |-> k] }

\* the display images of the third host
HandleDisplays == { << 1, 0, 1 >>, << 1, 1, 1, 1 >> }

HandleInit ==
  /\ state \in {nullptr} \cup UNION { c8_create(cfg) : cfg \in Configs }
  /\ last_call = IF IsNull(state) THEN "none" ELSE "c8_create"
  /\ rnds = 0
  /\ ubs = 0
  /\ resets = 0
  /\ events = 0
  /\ hist = NoHistory
  /\ twin = nullptr

\* one call of the entry point name, results being the machines it can leave
HandleCall(name, results) ==
  /\ last_call # "c8_destroy"
  /\ ~state.crashed
  /\ events < MaxCalls
  /\ state' \in results
  /\ last_call' = name
  /\ events' = events + 1
  /\ UNCHANGED << rnds, ubs, resets >>
  /\ UNCHANGED << hist, twin >>

CallReset == HandleCall("c8_reset", c8_reset(Enter(state)))

CallLoadRom ==
  \E rom \in HandleRoms : HandleCall("c8_load_rom", c8_load_rom(Enter(state), rom))

CallStep == HandleCall("c8_step", c8_step(Enter(state)))

CallStepFrame == HandleCall("c8_step_frame", c8_step_frame(Enter(state)))

CallUpdateTimers ==
  \E d \in Deltas :
    HandleCall("c8_update_timers", c8_update_timers(Enter(state), FloatOfMs(d)))

CallPressKey ==
  \E k \in Keys : HandleCall("c8_press_key", c8_press_key(Enter(state), k))

CallReleaseKey ==
  \E k \in Keys : HandleCall("c8_release_key", c8_release_key(Enter(state), k))

CallSetRngSeed ==
  \E seed \in Seeds : HandleCall("c8_set_rng_seed", c8_set_rng_seed(Enter(state), seed))

CallSetRegisters ==
  \E regs \in InsnRegs :
    HandleCall("c8_set_registers", c8_set_registers(Enter(state), regs))

CallSetDisplay ==
  \E d \in HandleDisplays : HandleCall("c8_set_display", c8_set_display(Enter(state), d))

CallDestroy == HandleCall("c8_destroy", c8_destroy(Enter(state)))

HandleNext ==
  \/ CallReset
  \/ CallLoadRom
  \/ CallStep
  \/ CallStepFrame
  \/ CallUpdateTimers
  \/ CallPressKey
  \/ CallReleaseKey
  \/ CallSetRngSeed
  \/ CallSetRegisters
  \/ CallSetDisplay
  \/ CallDestroy

HandleSpec == HandleInit /\ [][HandleNext]_vars

(***************************************************************************)
(* A fourth host, for the timers: it creates a machine, loads a ROM that   *)
(* draws twice, sets dt and st, and then passes time to c8_update_timers   *)
(* and steps the program, in any order, until one second has been passed.  *)
(* It keeps the history of its run in hist.                                *)
(***************************************************************************)
\* how many c8_update_timers calls
MaxTimerCalls == 3

\* the time the fourth host passes in all, in ms
TimerSpan == 1000

\* the floats the fourth host passes as delta_time: whole numbers of ms,
\* 150.000030517578125 and 249.999969482421875, which make 1000 with 600,
\* and 49.999996185302734, the float next below 50
TimerDeltas ==
  { FloatOfMs(ms) : ms \in {TimerSpan, 600, 340, 330} } \cup
  { 78643216, 131071984, 26214398 }

\* the registers the fourth host starts the timers with
TimerStarts ==
  { [ResetRegisters EXCEPT !.dt = t[1], !.st = t[2]] :
    t \in { << 0, 0 >>, << 60, 59 >>, << 255, 30 >> } }

\* D001 D001: DRW V0, V0, 1 twice
TimerRom == RomBytes(<< 53249, 53249 >>)

TimerInit ==
  /\ \E cfg \in Configs, regs \in TimerStarts :
       \E c \in c8_create(cfg) :
         \E t \in c8_load_rom(c, TimerRom) :
           /\ state \in c8_set_registers(t, regs)
           /\ hist = [NoHistory EXCEPT !.start = regs]
  /\ twin = nullptr
  /\ last_call = "c8_set_registers"
  /\ rnds = 0
  /\ ubs = 0
  /\ resets = 0
  /\ events = 0

TimerUpdate ==
  /\ events < MaxTimerCalls
  /\ \E d \in TimerDeltas :
       /\ hist.elapsed + d <= FloatOfMs(TimerSpan)
       /\ state' \in c8_update_timers(Enter(state), d)
       /\ hist' = [hist EXCEPT !.elapsed = @ + d, !.ticks = @ + state'.vblank]
  /\ last_call' = "c8_update_timers"
  /\ events' = events + 1
  /\ UNCHANGED << rnds, ubs, resets, twin >>

\* the host steps the program while pc is inside the ROM; a DRW drew when
\* it advanced pc
TimerStep ==
  /\ ~state.crashed
  /\ state.registers.pc < C8_ROM_OFFSET + Len(TimerRom)
  /\ state' \in c8_step(Enter(state))
  /\ hist' = [hist EXCEPT !.draws =
                IF state'.registers.pc = state.registers.pc + 2 THEN @ + 1 ELSE @]
  /\ last_call' = "c8_step"
  /\ UNCHANGED << rnds, ubs, resets, events, twin >>

TimerNext ==
  \/ TimerUpdate
  \/ TimerStep

TimerSpec == TimerInit /\ [][TimerNext]_vars

(***************************************************************************)
(* A fifth host, with two machines: it creates both from one                *)
(* configuration, gives both the same seed and the same ROM (or none), and *)
(* then makes every call on both: steps, timer updates, key presses and    *)
(* releases.                                                               *)
(***************************************************************************)
\* how many c8_update_timers calls
MaxTwinTimers == 2

\* no ROM, or C0FF D001 F00A: RND V0, 0xFF, DRW V0, V0, 1 and LD V0, KEY
TwinRoms == { << >>, RomBytes(<< 49407, 53249, 61450 >>) }

\* the keys the fifth host presses and releases
TwinKeys == {3, 7}

\* the ROMs of the run in which the fifth host steps again and again: none,
\* F00A (LD V0, KEY), and 6005 F10A (LD V0, 5 and LD V1, KEY)
FairRoms == { << >>, RomBytes(<< 61450 >>), RomBytes(<< 24581, 61706 >>) }

\* the start of the fifth host with a ROM of the set roms
TwinStart(roms) ==
  /\ \E cfg \in Configs, rom \in roms, seed \in Seeds :
       \E a \in c8_create(cfg), b \in c8_create(cfg) :
         \E a1 \in c8_set_rng_seed(a, seed), b1 \in c8_set_rng_seed(b, seed) :
           /\ state \in (IF rom = << >> THEN { a1 } ELSE c8_load_rom(a1, rom))
           /\ twin \in (IF rom = << >> THEN { b1 } ELSE c8_load_rom(b1, rom))
           /\ last_call = (IF rom = << >> THEN "c8_set_rng_seed" ELSE "c8_load_rom")
  /\ rnds = 0
  /\ ubs = 0
  /\ resets = 0
  /\ events = 0
  /\ hist = NoHistory

TwinInit == TwinStart(TwinRoms)

FairInit == TwinStart(FairRoms)

TwinStep ==
  /\ ~state.crashed
  /\ ~twin.crashed
  /\ state' \in c8_step(Enter(state))
  /\ twin' \in c8_step(Enter(twin))
  /\ last_call' = "c8_step"
  /\ UNCHANGED << rnds, ubs, resets, events, hist >>

\* the two machines run the same build: from equal accumulators the float
\* arithmetic of c8_update_timers gives equal accumulators
TwinUpdateTimers ==
  /\ events < MaxTwinTimers
  /\ \E d \in Deltas :
       /\ state' \in c8_update_timers(Enter(state), FloatOfMs(d))
       /\ twin' \in c8_update_timers(Enter(twin), FloatOfMs(d))
  /\ state.delta_time = twin.delta_time => state'.delta_time = twin'.delta_time
  /\ last_call' = "c8_update_timers"
  /\ events' = events + 1
  /\ UNCHANGED << rnds, ubs, resets, hist >>

TwinPressKey ==
  /\ \E k \in TwinKeys :
       /\ state' \in c8_press_key(Enter(state), k)
       /\ twin' \in c8_press_key(Enter(twin), k)
  /\ last_call' = "c8_press_key"
  /\ UNCHANGED << rnds, ubs, resets, events, hist >>

TwinReleaseKey ==
  /\ \E k \in TwinKeys :
       /\ state' \in c8_release_key(Enter(state), k)
       /\ twin' \in c8_release_key(Enter(twin), k)
  /\ last_call' = "c8_release_key"
  /\ UNCHANGED << rnds, ubs, resets, events, hist >>

TwinNext ==
  \/ TwinStep
  \/ TwinUpdateTimers
  \/ TwinPressKey
  \/ TwinReleaseKey

TwinSpec == TwinInit /\ [][TwinNext]_vars

\* the run in which the host steps again and again: a step that can change
\* the machines is not put off for ever
FairSpec == FairInit /\ [][TwinNext]_vars /\ WF_vars(TwinStep)

(***************************************************************************)
(* The claims.                                                             *)
(***************************************************************************)
\* the fields of struct c8_state that make up the machine
Machine(s) ==
  << s.registers, s.memory, s.display, s.pressed_keys, s.rng, s.vblank, s.delta_time >>

\* the call that led to the state was one c8_step that fetched a word of class hi
SteppedOp(hi) ==
  /\ last_call = "c8_step"
  /\ Len(state.ops) = 1
  /\ state.ops[1] \div 4096 = hi

\* C1: a CALL (2nnn) executed with sp = 16 leaves pc at the fault address
\* 0x000 when c8_step returns.
C1_CallOverflowFaults ==
  [][ (state.registers.sp = 16 /\ SteppedOp(2)')
        => state'.registers.pc = C8_PC_ON_FAULT ]_vars

\* C2: a RET (00EE) executed with sp = 0 leaves pc at the fault address 0x000
\* when c8_step returns.
C2_RetUnderflowFaults ==
  [][ (state.registers.sp = 0 /\ last_call' = "c8_step" /\ state'.ops = << 238 >>)
        => state'.registers.pc = C8_PC_ON_FAULT ]_vars

\* C3: in every reachable state the stack pointer sp is within 0..16.
C3_SpInRange == state.registers.sp \in 0..C8_STACK_SIZE

\* C4: in every reachable state pc is within 0..memory_size-2, so that the
\* two bytes of the next fetch lie inside memory.
C4_PcFetchable == state.registers.pc \in 0..(state.config.memory_size - 2)

\* C5: after every step pc < memory_size, and a jump (1nnn, Bnnn) whose target
\* is at or past memory_size leaves pc at the fault address 0x000.
JumpTarget(s, op) ==
  IF op \div 4096 = 1 THEN op % 4096
  ELSE (op % 4096) +
       s.registers.v[IF C8_QUIRK_BXNN_JUMP \in s.config.quirks THEN (op \div 256) % 16 ELSE 0]

C5_PcForcedIntoMemory ==
  /\ last_call \in {"c8_step", "c8_step_frame"}
       => state.registers.pc < state.config.memory_size
  /\ (SteppedOp(1) \/ SteppedOp(11)) /\ JumpTarget(state, state.ops[1]) >= state.config.memory_size
       => state.registers.pc = C8_PC_ON_FAULT

\* C5 witness: a Bnnn jump past the end of memory was forced to 0x000
C5_Witness ==
  /\ SteppedOp(11)
  /\ JumpTarget(state, state.ops[1]) >= state.config.memory_size
  /\ state.registers.pc = C8_PC_ON_FAULT

\* the words the claim C6 lists as recognized by no handler
ClaimUnrecognized(op) ==
  LET hi == op \div 4096
      n  == op % 16
      nn == op % 256 IN
  \/ hi \in {5, 9} /\ n # 0
  \/ hi = 8 /\ n \in (8..13) \cup {15}
  \/ hi = 14 /\ nn \notin {158, 161}
  \/ hi = 15 /\ nn \notin {7, 10, 21, 24, 30, 41, 51, 85, 101}

\* C6: a step on a word no handler recognizes (the chain holding no handler
\* but the base handler) changes nothing: registers (pc included), memory,
\* display, keys, PRNG state, vblank budget.
C6_UnrecognizedIsNoOp ==
  [][ (/\ last_call' = "c8_step"
       /\ Len(state'.ops) = 1
       /\ ClaimUnrecognized(state'.ops[1])
       /\ \A k \in DOMAIN state.config.op_handlers :
            state.config.op_handlers[k] = "c8_chip8_op_handler")
        => Machine(state') = Machine(state) ]_vars

\* C6 witness: a step was made on an unrecognized 8xyN word with registers set
C6_Witness ==
  /\ SteppedOp(8)
  /\ ClaimUnrecognized(state.ops[1])
  /\ state.registers.v[1] # 0

\* C7: memory 0x000..0x001 always holds the trap 0x10 0x00 and memory
\* 0x050..0x09F always holds the font.
C7_ReservedMemoryIntact ==
  /\ state.memory[0] = 16
  /\ state.memory[1] = 0
  /\ \A k \in 1..80 : state.memory[C8_MEM_FONT_OFFSET + k - 1] = C8_FONT[k]

\* C8: after c8_reset memory is zero except the trap and the font, the display
\* is zero, no key is pressed, the accumulator is 0 and the registers are
\* pc = 0x200, sp = i = dt = st = 0, v[] = stack[] = 0.
C8_ResetState ==
  last_call = "c8_reset" =>
    /\ \A a \in 0..(state.config.memory_size - 1) :
         state.memory[a] = IF a = 0 THEN 16
                           ELSE IF a \in 80..159 THEN C8_FONT[a - 79]
                           ELSE 0
    /\ DOMAIN state.memory = 0..(state.config.memory_size - 1)
    /\ \A p \in DOMAIN state.display : state.display[p] = 0
    /\ \A k \in 0..15 : ~state.pressed_keys[k]
    /\ state.delta_time = 0
    /\ state.registers.pc = 512
    /\ state.registers.sp = 0
    /\ state.registers.i = 0
    /\ state.registers.dt = 0
    /\ state.registers.st = 0
    /\ \A k \in 0..15 : state.registers.v[k] = 0 /\ state.registers.stack[k] = 0

\* C8 witness: a reset of a machine that had drawn a sprite (with the VBlank
\* quirk the draw took one tick of the budget, which the reset leaves)
C8_Witness ==
  /\ last_call = "c8_reset"
  /\ C8_QUIRK_VBLANK \in state.config.quirks
  /\ state.vblank = 1

\* C9: after c8_reset, and after c8_create, the vblank budget is 0.
C9_ResetVblank ==
  last_call \in {"c8_reset", "c8_create"} => state.vblank = 0

\* C10: c8_reset leaves the PRNG state as it was, and only c8_set_rng_seed and
\* a RND instruction (Cxnn) change it.
C10_RngPreserved ==
  [][ /\ last_call' = "c8_reset" => c8_get_rng_seed(state') = c8_get_rng_seed(state)
      /\ state'.rng # state.rng =>
           \/ last_call' = "c8_set_rng_seed"
           \/ /\ last_call' \in {"c8_step", "c8_step_frame"}
              /\ \E k \in DOMAIN state'.ops : state'.ops[k] \div 4096 = 12 ]_vars

\* C10 witness: a reset of a machine whose PRNG state RND had advanced
C10_Witness ==
  /\ last_call = "c8_reset"
  /\ c8_get_rng_seed(state) \notin { c8_get_rng_seed(h) : h \in UninitHeap } \cup Seeds

\* the call that led to s was one c8_step that fetched a word 8xyN with N = n
AluWord(s, n) ==
  /\ Len(s.ops) = 1
  /\ s.ops[1] \div 4096 = 8
  /\ s.ops[1] % 16 = n

\* the result of the bitwise word 8xyN (N = 1 OR, 2 AND, 3 XOR) on a and b
Bitwise(n, a, b) ==
  CASE n = 1 -> BitOr(a, b)
    [] n = 2 -> BitAnd(a, b)
    [] OTHER -> BitXor(a, b)

\* C14 as stated: after OR, AND or XOR, for every x and y, VF is 0 with the
\* VF-reset quirk and has the value it had before the instruction without it.
C14_Original ==
  [][ (last_call' = "c8_step" /\ \E n \in 1..3 : AluWord(state', n))
        => state'.registers.v[15] =
             IF C8_QUIRK_VF_RESET \in state.config.quirks THEN 0
             ELSE state.registers.v[15] ]_vars

\* C14 as amended: after OR, AND or XOR VF is 0 with the VF-reset quirk;
\* without it VF keeps its value when x # 15 and, being the destination
\* register, holds VF op Vy when x = 15.
C14_VfAfterBitwise ==
  [][ (last_call' = "c8_step" /\ \E n \in 1..3 : AluWord(state', n))
        => LET op == state'.ops[1]
               r  == state.registers.v
           IN  state'.registers.v[15] =
                 IF C8_QUIRK_VF_RESET \in state.config.quirks THEN 0
                 ELSE IF OpX(op) # 15 THEN r[15]
                 ELSE Bitwise(OpN(op), r[15], r[OpY(op)]) ]_vars

\* C14 witness: OR VF, V1 (8F11) without the quirk left 244 | 238 = 254 in VF
C14_Witness ==
  /\ last_call = "c8_step"
  /\ state.ops = << 36625 >>
  /\ C8_QUIRK_VF_RESET \notin state.config.quirks
  /\ state.registers.v[15] = 254

\* C15: after SHR (8xy6) and SHL (8xyE) the source is Vy without the shift
\* quirk and Vx with it, VF is the bit shifted out of the source (its value
\* before the instruction) and, when x # 15, Vx is the source shifted by one
\* bit modulo 256.
C15_ShiftFlagAndResult ==
  [][ (last_call' = "c8_step" /\ \E n \in {6, 14} : AluWord(state', n))
        => LET op == state'.ops[1]
               x  == OpX(op)
               r  == state.registers.v
               source == r[IF C8_QUIRK_SHIFT \in state.config.quirks THEN x ELSE OpY(op)]
               right  == OpN(op) = 6
           IN  /\ state'.registers.v[15] = IF right THEN source % 2 ELSE source \div 128
               /\ x # 15 => state'.registers.v[x] =
                              IF right THEN source \div 2 ELSE (source * 2) % 256 ]_vars

\* C15 witness: SHL V1, VF (81FE) without the shift quirk took VF = 244 as the
\* source: V1 = 232 and VF = 1 afterwards
C15_Witness ==
  /\ last_call = "c8_step"
  /\ state.ops = << 33278 >>
  /\ C8_QUIRK_SHIFT \notin state.config.quirks
  /\ state.registers.v[1] = 232
  /\ state.registers.v[15] = 1

\* C16: after ADD (8xy4) VF is 1 if Vx + Vy > 255 and 0 otherwise, after SUB
\* (8xy5) and SUBN (8xy7) VF is 1 if the minuend is greater than the
\* subtrahend and 0 otherwise, for every x and y, x = 15 included.
C16_ArithmeticFlag ==
  [][ (last_call' = "c8_step" /\ \E n \in {4, 5, 7} : AluWord(state', n))
        => LET op == state'.ops[1]
               n  == OpN(op)
               vx == state.registers.v[OpX(op)]
               vy == state.registers.v[OpY(op)]
               flag == CASE n = 4 -> vx + vy > 255
                         [] n = 5 -> vx > vy
                         [] OTHER -> vy > vx
           IN  state'.registers.v[15] = IF flag THEN 1 ELSE 0 ]_vars

\* the call that led to s was one c8_step that fetched a word FxNN with NN = nn
FxWord(s, nn) ==
  /\ Len(s.ops) = 1
  /\ s.ops[1] \div 4096 = 15
  /\ s.ops[1] % 256 = nn

\* C17: after Fx55 and Fx65 with I + X < memory_size, I is unchanged with
\* the no-increment quirk; otherwise it is I + X with the increment-by-X
\* quirk and I + X + 1 without it.
C17_BulkIndexIncrement ==
  [][ (/\ last_call' = "c8_step"
       /\ FxWord(state', 85) \/ FxWord(state', 101)
       /\ state.registers.i + OpX(state'.ops[1]) < state.config.memory_size)
        => LET x == OpX(state'.ops[1])
               i == state.registers.i
               q == state.config.quirks
           IN  state'.registers.i =
                 IF C8_QUIRK_LOAD_STORE_NO_INC_I \in q THEN i
                 ELSE IF C8_QUIRK_LOAD_STORE_INC_I_BY_X \in q THEN i + x
                 ELSE i + x + 1 ]_vars

\* C17 witness: LD [I], V2 (F255) with only the increment-by-X quirk took I
\* from 514 to 516
C17_Witness ==
  /\ last_call = "c8_step"
  /\ state.ops = << 62037 >>
  /\ state.config.quirks = { C8_QUIRK_LOAD_STORE_INC_I_BY_X }
  /\ state.registers.i = 516

\* C18: Fx55 and Fx65, for every I in 0..0xFFFF and every X, read and write
\* only memory[0..memory_size-1] and only the registers V0..V15.
C18_BulkStaysInside ==
  (last_call = "c8_step" /\ (FxWord(state, 85) \/ FxWord(state, 101)))
    => /\ state.ub \cap {"mem_read", "mem_write", "v_read", "v_write"} = {}
       /\ ~state.crashed

\* the decimal digits of b: hundreds, tens, units
Digits(b) == << b \div 100, (b \div 10) % 10, b % 10 >>

\* C19: BCD (Fx33), with the three bytes at I inside memory, writes the
\* hundreds, tens and units digit of Vx to memory[I], memory[I+1] and
\* memory[I+2] and changes nothing else but pc: I, the other registers and
\* every other memory byte are as before.
C19_BcdDigits ==
  [][ (/\ last_call' = "c8_step"
       /\ FxWord(state', 51)
       /\ state.registers.i + 2 < state.config.memory_size)
        => LET i == state.registers.i
               d == Digits(state.registers.v[OpX(state'.ops[1])])
           IN  /\ state'.memory = [a \in DOMAIN state.memory |->
                                     IF a \in i..(i + 2) THEN d[a - i + 1]
                                     ELSE state.memory[a]]
               /\ state'.registers = [state.registers EXCEPT !.pc = @ + 2] ]_vars

\* C19 witness: BCD V1 (F133) with V1 = 255 wrote 2, 5, 5 at I = 514
C19_Witness ==
  /\ last_call = "c8_step"
  /\ state.ops = << 61747 >>
  /\ state.registers.v[1] = 255
  /\ state.registers.i = 514
  /\ << state.memory[514], state.memory[515], state.memory[516] >> = << 2, 5, 5 >>

\* C11: c8_load_rom of a ROM of size bytes copies its first
\* min(size, memory_size - 0x200) bytes to memory[0x200 ..] and changes
\* nothing else: memory below 0x200 and past the copy, registers, display,
\* keys and PRNG state are as before, and nothing is written outside memory
\* (the machine does not crash), whatever the size.
C11_LoadRomCopies ==
  (~IsNull(state) /\ ~state.crashed /\ last_call # "c8_destroy") =>
    \A rom \in HandleRoms : \A t \in c8_load_rom(state, rom) :
      LET room == state.config.memory_size - C8_ROM_OFFSET
          n    == IF Len(rom) < room THEN Len(rom) ELSE room
      IN  t = [state EXCEPT !.memory =
                 [a \in 0..(state.config.memory_size - 1) |->
                    IF a \in C8_ROM_OFFSET..(C8_ROM_OFFSET + n - 1)
                      THEN rom[a - C8_ROM_OFFSET + 1]
                      ELSE state.memory[a]]]

\* C11 witness: the ten-byte ROM was loaded and cut to the eight bytes
\* 0x200..0x207 of a 520-byte memory
C11_Witness ==
  /\ last_call = "c8_load_rom"
  /\ ~IsNull(state)
  /\ ~state.crashed
  /\ \A k \in 1..8 : state.memory[C8_ROM_OFFSET + k - 1] = k
  /\ DOMAIN state.memory = 0..(C8_ROM_OFFSET + 7)

\* C12: after c8_destroy of a machine no allocation of it is live: the state
\* record, the memory buffer and the display buffer are freed.
C12_DestroyFreesAll ==
  (last_call = "c8_destroy" /\ ~IsNull(state)) => state.live = {}

\* C13: every entry point called with a null handle changes nothing and
\* fails nowhere, and the getters return null, c8_get_rng_seed 0.
C13_NullHandleIsBenign ==
  [][ IsNull(state) =>
        /\ state' = nullptr
        /\ c8_get_registers(state') = nullptr
        /\ c8_get_display(state') = nullptr
        /\ c8_get_memory(state') = nullptr
        /\ c8_get_machine_config(state') = nullptr
        /\ c8_get_rng_seed(state') = 0 ]_vars

\* C13 witness: three calls were made on a null handle, c8_destroy the last
C13_Witness ==
  /\ IsNull(state)
  /\ last_call = "c8_destroy"
  /\ events = MaxCalls

\* the machines left by DRW V0, V0, n executed twice in a row from s, each
\* with the machine between the two draws: << s, t, u >>
DrawnTwice(s, n) ==
  UNION { { << s, t, u >> : u \in c8_op_drw(t, 0, 0, n) } :
          t \in c8_op_drw(s, 0, 0, n) }

\* both draws of a triple were made: none was held back by the vblank budget,
\* and the sprite rows lie inside memory
BothDrew(d, n) ==
  /\ d[1].registers.i + n <= d[1].config.memory_size
  /\ d[2].registers.pc = d[1].registers.pc + 2
  /\ d[3].registers.pc = d[2].registers.pc + 2

\* C20 as stated: on a display of cells 0 and 1, the same sprite drawn twice
\* in a row at the same place leaves the display as it was before the first
\* draw, and VF is 0 after the second draw when no pixel was lit before the
\* first.
C20_Original ==
  (/\ ~IsNull(state) /\ ~state.crashed /\ last_call # "c8_destroy"
   /\ \A p \in DOMAIN state.display : state.display[p] \in {0, 1}) =>
    \A n \in 1..2 : \A d \in DrawnTwice(state, n) :
      BothDrew(d, n) =>
        /\ d[3].display = d[1].display
        /\ (\A p \in DOMAIN d[1].display : d[1].display[p] = 0)
             => d[3].registers.v[15] = 0

\* C20 as amended: on a display of cells 0 and 1, the same sprite drawn twice
\* in a row at the same place leaves the display as it was before the first
\* draw, and VF after the
\* second draw is 1 if the first draw lit at least one pixel, 0 if it lit none.
C20_DrawTwiceRestores ==
  (/\ ~IsNull(state) /\ ~state.crashed /\ last_call # "c8_destroy"
   /\ \A p \in DOMAIN state.display : state.display[p] \in {0, 1}) =>
    \A n \in 1..2 : \A d \in DrawnTwice(state, n) :
      BothDrew(d, n) =>
        /\ d[3].display = d[1].display
        /\ d[3].registers.v[15] =
             IF \E p \in DOMAIN d[1].display :
                  d[1].display[p] = 0 /\ d[2].display[p] # 0
               THEN 1 ELSE 0

\* C20 witness: the ROM D001 D001 was stepped twice on a clear display: the
\* display is clear again and VF is 1
C20_Witness ==
  /\ last_call = "c8_step"
  /\ state.ops = << 53249 >>
  /\ state.registers.pc = C8_ROM_OFFSET + 4
  /\ state.memory[C8_ROM_OFFSET + 2] = 208
  /\ \A p \in DOMAIN state.display : state.display[p] = 0
  /\ state.registers.v[15] = 1

\* the whole 1/60 s ticks in a time of acc units: floor(acc / (1000 / 60))
WholeTicks(acc) == (3 * acc) \div (50 * FloatOne)

\* C21: c8_update_timers(delta_ms) with delta_ms >= 0 adds delta_ms to the
\* accumulator, counts ticks = floor(accumulator / (1000/60)), sets dt and st
\* to max(dt - ticks, 0) and max(st - ticks, 0), keeps a leftover in
\* [0, 1000/60) and sets the vblank budget to ticks; dt and st never grow.
C21_TimersCountWholeTicks ==
  [][ last_call' = "c8_update_timers" =>
        LET acc   == state.delta_time + (hist'.elapsed - hist.elapsed)
            ticks == WholeTicks(acc)
        IN  /\ state'.registers.dt = C8_MAX(state.registers.dt - ticks, 0)
            /\ state'.registers.st = C8_MAX(state.registers.st - ticks, 0)
            /\ state'.vblank = ticks
            /\ state'.delta_time >= 0
            /\ WholeTicks(state'.delta_time) = 0
            /\ state'.registers.dt <= state.registers.dt
            /\ state'.registers.st <= state.registers.st ]_vars

\* C22 as stated: from an empty accumulator, c8_update_timers calls whose
\* deltas sum to exactly 1000 ms decrement dt and st by 60 ticks, floored at
\* 0, as one call with 1000 ms does.
C22_Original ==
  hist.elapsed = FloatOfMs(TimerSpan) =>
    /\ state.registers.dt = C8_MAX(hist.start.dt - VBLANK_HZ, 0)
    /\ state.registers.st = C8_MAX(hist.start.st - VBLANK_HZ, 0)

\* C22 as amended: from an empty accumulator, c8_update_timers calls whose
\* deltas sum to exactly 1000 ms decrement dt and st by 60 ticks or, when the
\* rounding of the float accumulator loses one, by 59, floored at 0; one
\* call with 1000 ms decrements them by exactly 60.
C22_ThousandMsTicks ==
  hist.elapsed = FloatOfMs(TimerSpan) =>
    /\ hist.ticks \in {VBLANK_HZ - 1, VBLANK_HZ}
    /\ events = 1 => hist.ticks = VBLANK_HZ
    /\ state.registers.dt = C8_MAX(hist.start.dt - hist.ticks, 0)
    /\ state.registers.st = C8_MAX(hist.start.st - hist.ticks, 0)

\* C22 witness: three calls that sum to 1000 ms have counted 59 ticks
C22_Witness ==
  /\ hist.elapsed = FloatOfMs(TimerSpan)
  /\ events = 3
  /\ hist.ticks = VBLANK_HZ - 1
  /\ hist.start.dt = 255
  /\ state.registers.dt = 196
  /\ state.registers.st = 0

\* C23: with the VBlank quirk, in a run from c8_create the DRW instructions
\* that drew are never more than the ticks c8_update_timers has counted.
C23_DrawsWithinTicks ==
  HasQuirk(state, C8_QUIRK_VBLANK) => hist.draws <= hist.ticks

\* C24: c8_step calls the handlers in chain order and stops at the first one
\* that reports handled: the step is the transition of that handler alone, so
\* a handler before the base handler overrides it for every word it
\* recognises, the base handler acts only on words all earlier handlers
\* decline, and a word no handler recognises changes nothing.
C24_FirstHandlerWins ==
  [][ (last_call' = "c8_step" /\ Len(state'.ops) = 1) =>
        LET op     == state'.ops[1]
            chain  == state.config.op_handlers
            s0     == [Enter(state) EXCEPT !.ops = << op >>]
            takers == { k \in DOMAIN chain : CallHandler(chain[k], s0, op).handled }
        IN  IF takers = {} THEN state' = PcCheck(s0)
            ELSE LET first == CHOOSE k \in takers : \A j \in takers : k <= j
                 IN  state' \in { PcCheck(t) : t \in CallHandler(chain[first], s0, op).out } ]_vars

\* C24 witness: with the host's handler before the base handler, LD V1, 0x2A
\* was stepped and V1 holds the host's value, not 0x2A
C24_Witness ==
  /\ last_call = "c8_step"
  /\ state.config.op_handlers = << "host_op_handler", "c8_chip8_op_handler" >>
  /\ state.ops = << 24874 >>
  /\ state.registers.v[1] = 213
  /\ state.registers.pc = C8_ROM_OFFSET + 2

TransfersControl(op) == op = 238 \/ op \div 4096 \in {1, 2, 11}

C26_DisplayCells ==
  (~IsNull(state) /\ ~state.crashed /\ "display" \in state.live) =>
    LET size == state.config.screen_width * state.config.screen_height IN
    /\ DOMAIN state.display = 0..(size - 1)
    /\ \A p \in DOMAIN state.display : state.display[p] \in {0, 1}
    /\ c8_get_display(state).display_size = size

\* C27: a PRNG state of zero is degenerate: with the four state bytes 0, RND
\* (Cxnn) sets Vx to 0 for every mask nn and leaves the state 0, so every
\* later RND does the same.
C27_ZeroRngIsDegenerate ==
  (~state.crashed /\ state.rng = << 0, 0, 0, 0 >>) =>
    \A x \in {0, 15}, nn \in {0, 90, 255} :
      \A t \in c8_op_rnd(state, x, nn) :
        /\ t.rng = << 0, 0, 0, 0 >>
        /\ t.registers.v[x] = 0

\* C27 witness: after LD V0, 0xFF the word RND V0, 0xFF was stepped with the
\* state 0: V0 is 0 and the state is still 0
C27_Witness ==
  /\ last_call = "c8_step"
  /\ state.ops = << 49407 >>
  /\ state.memory[C8_ROM_OFFSET] = 96
  /\ state.registers.pc = C8_ROM_OFFSET + 4
  /\ state.rng = << 0, 0, 0, 0 >>
  /\ state.registers.v[0] = 0

\* C28: a CALL with sp = 16 and a RET with sp = 0 are fully short-circuiting:
\* they leave sp, the 16 stack entries and the 16 V registers as they were
\* and only set pc to 0x000.
C28_FaultShortCircuits ==
  [][ (/\ last_call' = "c8_step"
       /\ Len(state'.ops) = 1
       /\ \/ state'.ops[1] \div 4096 = 2 /\ state.registers.sp = C8_STACK_SIZE
          \/ state'.ops[1] = 238 /\ state.registers.sp = 0) =>
        /\ state'.registers.sp = state.registers.sp
        /\ state'.registers.stack = state.registers.stack
        /\ state'.registers.v = state.registers.v
        /\ state'.registers.pc = C8_PC_ON_FAULT ]_vars

C30_FaultStateAbsorbs ==
  [][ (/\ last_call' \in {"c8_step", "c8_step_frame"}
       /\ state.registers.pc = C8_PC_ON_FAULT
       /\ state.memory[C8_PC_ON_FAULT] = C8_FAULT_HANDLER[1]
       /\ state.memory[C8_PC_ON_FAULT + 1] = C8_FAULT_HANDLER[2]) =>
        /\ state'.registers = state.registers
        /\ state'.memory = state.memory
        /\ state'.display = state.display ]_vars

\* C30 witness: a step was made in the fault state: it fetched the trap JP
\* 0x000 and pc is 0x000
C30_Witness ==
  /\ last_call = "c8_step"
  /\ state.ops = << 4096 >>
  /\ state.registers.pc = C8_PC_ON_FAULT
  /\ state.memory[C8_PC_ON_FAULT] = C8_FAULT_HANDLER[1]

\* the condition of the conditional skips 3xnn, 4xnn, 5xy0, 9xy0, Ex9E and
\* ExA1 holds for the word op in the machine s
SkipTaken(s, op) ==
  LET hi   == op \div 4096
      vx   == s.registers.v[OpX(op)]
      vy   == s.registers.v[OpY(op)]
      down == vx <= 15 /\ s.pressed_keys[vx]
  IN  CASE hi = 3 -> vx = OpNN(op)
        [] hi = 4 -> vx # OpNN(op)
        [] hi = 5 -> vx = vy
        [] hi = 9 -> vx # vy
        [] hi = 14 /\ OpNN(op) = 158 -> down
        [] hi = 14 /\ OpNN(op) = 161 -> ~down
        [] OTHER -> FALSE

\* op is a DRW that the machine s blocks: the VBlank quirk is on and the
\* budget is 0
BlockedDraw(s, op) ==
  op \div 4096 = 13 /\ C8_QUIRK_VBLANK \in s.config.quirks /\ s.vblank = 0

\* op is LD Vx, KEY and no key of the machine s is pressed
WaitsForKey(s, op) ==
  /\ op \div 4096 = 15
  /\ OpNN(op) = 10
  /\ \A k \in 0..(C8_KEY_MAX - 1) : ~s.pressed_keys[k]

\* one c8_step of a machine with the base handler in its chain, with
\* pc + 4 < memory_size and no access outside memory, of a recognized word
\* that is not JP, CALL, RET, JP V0 or a blocked DRW (nor, when waits is
\* TRUE, an LD Vx, KEY with no key pressed) adds 4 to pc when the word is a
\* conditional skip whose condition holds and 2 otherwise
PcAdvanceOfStep(waits) ==
  (/\ last_call' = "c8_step"
   /\ Len(state'.ops) = 1
   /\ state'.ub = {}
   /\ ~state'.crashed
   /\ \E k \in DOMAIN state.config.op_handlers :
        state.config.op_handlers[k] = "c8_chip8_op_handler"
   /\ state.registers.pc + 4 < state.config.memory_size
   /\ Handled(state'.ops[1])
   /\ ~TransfersControl(state'.ops[1])
   /\ ~BlockedDraw(state, state'.ops[1])
   /\ (waits => ~WaitsForKey(state, state'.ops[1]))) =>
    state'.registers.pc =
      state.registers.pc + (IF SkipTaken(state, state'.ops[1]) THEN 4 ELSE 2)

\* C31 as stated: every recognized instruction other than JP, CALL, RET,
\* JP V0 and a DRW blocked by an exhausted vblank budget changes pc by
\* exactly +2, or by exactly +4 when it is a conditional skip whose
\* condition holds (given pc + 4 < memory_size).
C31_Original == [][PcAdvanceOfStep(FALSE)]_vars

\* C31 as amended: the same, with one more exception: LD Vx, KEY (Fx0A)
\* with no key pressed leaves pc on the instruction.  pc is never advanced
\* twice by one step.
C31_PcAdvancesOnce == [][PcAdvanceOfStep(TRUE)]_vars

\* C31 witness: SKP V1 was stepped at 0x200 with V1 = 0 and key 0 pressed,
\* and pc is 0x204
C31_Witness ==
  /\ last_call = "c8_step"
  /\ state.ops = << 57758 >>
  /\ state.registers.v[1] = 0
  /\ state.pressed_keys[0]
  /\ state.registers.pc = C8_ROM_OFFSET + 4

\* the display after the machine s drew the one sprite row memory[I] at
\* (Vx mod screen_width, Vy mod screen_height), for a row that does not
\* reach past the right edge
OneRowDrawn(s, op) ==
  LET sw  == s.config.screen_width
      px0 == s.registers.v[OpX(op)] % sw
      py0 == s.registers.v[OpY(op)] % s.config.screen_height
      row == s.memory[s.registers.i]
  IN  [p \in DOMAIN s.display |->
         IF p \div sw = py0 /\ (p % sw) - px0 \in 0..7
           THEN (s.display[p] + Bit(row, 7 - ((p % sw) - px0))) % 2
           ELSE s.display[p]]

\* C32: with the VBlank quirk on and a budget of 0, DRW changes nothing (the
\* display, VF, pc and the budget stay), and the budget leaves 0 only by a
\* c8_update_timers call, so the machine stays on the DRW until then; with
\* a budget > 0 DRW draws, takes exactly 1 from the budget and adds 2 to pc.
C32_VblankGatesDraw ==
  [][ /\ (/\ last_call' = "c8_step"
          /\ Len(state'.ops) = 1
          /\ state'.ops[1] \div 4096 = 13
          /\ OpN(state'.ops[1]) = 1
          /\ C8_QUIRK_VBLANK \in state.config.quirks) =>
           IF state.vblank = 0
             THEN Machine(state') = Machine(state)
             ELSE /\ state'.vblank = state.vblank - 1
                  /\ state'.registers.pc = state.registers.pc + 2
                  /\ state'.display = OneRowDrawn(state, state'.ops[1])
      /\ (state.vblank = 0 /\ state'.vblank # 0) =>
           last_call' = "c8_update_timers" ]_vars

\* C32 witness: with the quirk on, c8_update_timers recorded ticks and one
\* DRW then drew: pc is 0x202, the pixel of the sprite is lit and the budget
\* is one less than the ticks
C32_Witness ==
  /\ last_call = "c8_step"
  /\ C8_QUIRK_VBLANK \in state.config.quirks
  /\ hist.ticks > 0
  /\ hist.draws = 1
  /\ state.vblank = hist.ticks - 1
  /\ state.registers.pc = C8_ROM_OFFSET + 2
  /\ state.display[3] = 1

\* the sprite bits the DRW word op draws in the machine s: bit j of row r
\* (bit 7 of memory[I + r] is j = 0) lands on the pixel p, counted from
\* (Vx mod screen_width, Vy mod screen_height); k is its place in the order
\* of drawing.  With the wrap quirk the coordinates are taken modulo the
\* screen; without it the bits past the right and bottom edges are left out.
DrawnBits(s, op) ==
  LET sw   == s.config.screen_width
      sh   == s.config.screen_height
      px0  == s.registers.v[OpX(op)] % sw
      py0  == s.registers.v[OpY(op)] % sh
      wrap == C8_QUIRK_WRAP_SPRITES \in s.config.quirks
      cols == { j \in 0..7 : wrap \/ px0 + j < sw }
      rws  == { r \in 0..(OpN(op) - 1) : wrap \/ py0 + r < sh }
  IN  { [ k   |-> 8 * r + j,
          p   |-> ((py0 + r) % sh) * sw + ((px0 + j) % sw),
          bit |-> Bit(s.memory[s.registers.i + r], 7 - j) ] :
        r \in rws, j \in cols }

\* the display after every bit of DrawnBits was XORed into its pixel
XorDrawn(s, op) ==
  [p \in DOMAIN s.display |->
     (s.display[p] + Cardinality({ b \in DrawnBits(s, op) : b.p = p /\ b.bit = 1 })) % 2]

\* a drawn bit of 1 landed on a pixel that was 1 before the draw
HitsLitBefore(s, op) ==
  \E b \in DrawnBits(s, op) : b.bit = 1 /\ s.display[b.p] = 1

\* a drawn bit of 1 landed on a pixel that was 1 when the bit was drawn,
\* the earlier bits of the same draw counted
HitsLitThen(s, op) ==
  \E b \in DrawnBits(s, op) :
    /\ b.bit = 1
    /\ (s.display[b.p] +
         Cardinality({ c \in DrawnBits(s, op) : c.p = b.p /\ c.bit = 1 /\ c.k < b.k })) % 2 = 1

\* a c8_step that drew: the word is a DRW that is not blocked and reads its
\* sprite inside memory, and the display cells are 0 or 1
StepDrew ==
  /\ last_call' = "c8_step"
  /\ Len(state'.ops) = 1
  /\ state'.ops[1] \div 4096 = 13
  /\ ~BlockedDraw(state, state'.ops[1])
  /\ state'.ub = {}
  /\ \A p \in DOMAIN state.display : state.display[p] \in {0, 1}

\* C33 as stated: DRW XORs each drawn sprite bit into its pixel, sets VF to
\* 1 if and only if a drawn bit of 1 landed on a pixel that was 1 before the
\* draw and to 0 otherwise, and leaves I and memory unchanged.
C33_Original ==
  [][ StepDrew =>
        /\ state'.display = XorDrawn(state, state'.ops[1])
        /\ state'.registers.v[15] = (IF HitsLitBefore(state, state'.ops[1]) THEN 1 ELSE 0)
        /\ state'.registers.i = state.registers.i
        /\ state'.memory = state.memory ]_vars

\* C33 as amended: VF is 1 if and only if a drawn bit of 1 landed on a pixel
\* that was 1 when that bit was drawn: 1 before the draw, or lit by an
\* earlier bit of the same draw when a wrapped sprite taller or wider than
\* the screen passes over a pixel twice.  The rest is as stated.
C33_DrawXorsAndFlags ==
  [][ StepDrew =>
        /\ state'.display = XorDrawn(state, state'.ops[1])
        /\ state'.registers.v[15] = (IF HitsLitThen(state, state'.ops[1]) THEN 1 ELSE 0)
        /\ state'.registers.i = state.registers.i
        /\ state'.memory = state.memory ]_vars

\* C33 witness: DRW V1, V2, 3 drew the top of the font sprite 0 at the
\* origin of a fully lit screen: the pixels under F0 are off, the fifth is
\* still lit and VF is 1
C33_Witness ==
  /\ last_call = "c8_step"
  /\ state.ops = << 53539 >>
  /\ state.registers.i = C8_MEM_FONT_OFFSET
  /\ state.registers.v[1] = 0
  /\ state.registers.v[2] = 0
  /\ state.registers.v[15] = 1
  /\ state.display[0] = 0
  /\ state.display[4] = 1
  /\ state.registers.pc = C8_ROM_OFFSET + 2

\* the pixel p of the machine s after a clipped draw of the DRW word op: the
\* pixels right of and below the start, as far as the sprite reaches, take
\* their sprite bit; no other pixel changes
ClippedPixel(s, op, p) ==
  LET sw == s.config.screen_width
      j  == (p % sw) - (s.registers.v[OpX(op)] % sw)
      r  == (p \div sw) - (s.registers.v[OpY(op)] % s.config.screen_height)
  IN  IF j \in 0..7 /\ r \in 0..(OpN(op) - 1)
        THEN (s.display[p] + Bit(s.memory[s.registers.i + r], 7 - j)) % 2
        ELSE s.display[p]

\* the pixel p after a wrapped draw: it takes every sprite bit whose column
\* and row, counted from the start, are those of p modulo the screen
WrappedPixel(s, op, p) ==
  LET sw == s.config.screen_width
      sh == s.config.screen_height
      j0 == ((p % sw) + sw - (s.registers.v[OpX(op)] % sw)) % sw
      r0 == ((p \div sw) + sh - (s.registers.v[OpY(op)] % sh)) % sh
      on == { << r, j >> \in (0..(OpN(op) - 1)) \X (0..7) :
                /\ j % sw = j0
                /\ r % sh = r0
                /\ Bit(s.memory[s.registers.i + r], 7 - j) = 1 }
  IN  (s.display[p] + Cardinality(on)) % 2

\* the 8 x n rectangle of the DRW word op crosses the right or the bottom
\* edge of the screen of the machine s
CrossesEdge(s, op) ==
  \/ (s.registers.v[OpX(op)] % s.config.screen_width) + 8 > s.config.screen_width
  \/ (s.registers.v[OpY(op)] % s.config.screen_height) + OpN(op) >
       s.config.screen_height

\* C34: for a sprite that crosses the right or bottom edge, DRW without the
\* wrap quirk changes no pixel outside columns px0..screen_width-1 and rows
\* py0..screen_height-1 and drops the overhang in each axis on its own; with
\* the wrap quirk it draws the overhang at coordinates modulo the screen.
\* The start (px0, py0) is (Vx mod width, Vy mod height) in both modes.
C34_ClipOrWrap ==
  [][ (StepDrew /\ CrossesEdge(state, state'.ops[1])) =>
        \A p \in DOMAIN state.display :
          state'.display[p] =
            IF C8_QUIRK_WRAP_SPRITES \in state.config.quirks
              THEN WrappedPixel(state, state'.ops[1], p)
              ELSE ClippedPixel(state, state'.ops[1], p) ]_vars

\* C34 witness: without the wrap quirk DRW V1, V2, 3 drew the font sprite 0
\* from V1 = 13, V2 = 6 on a blank screen: the start is (3, 2), the two rows
\* that fit are drawn and nothing appears in row 0
C34_Witness ==
  /\ last_call = "c8_step"
  /\ state.ops = << 53539 >>
  /\ state.config.quirks = C8_QUIRK_NONE
  /\ state.registers.i = C8_MEM_FONT_OFFSET
  /\ state.registers.v[1] = 13
  /\ state.registers.v[2] = 6
  /\ state.display[2 * screen_width + 3] = 1
  /\ state.display[3 * screen_width + 3] = 1
  /\ state.display[3 * screen_width + 4] = 0
  /\ state.display[3] = 0
  /\ state.registers.v[15] = 0

\* C35: the machine is deterministic: two machines made by c8_create with
\* the same configuration and given the same seed, the same ROM and the same
\* sequence of c8_step, c8_update_timers and key calls have identical
\* registers (the RND outputs are in them), memory and display after every
\* call, for every quirk combination including VBlank.
C35_TwinsAgree ==
  /\ state.registers = twin.registers
  /\ state.memory = twin.memory
  /\ state.display = twin.display

\* C36: BCD (Fx33) and DRW (Dxyn) access only the memory addresses
\* 0..memory_size-1 for every value of I a program can produce (LD I, nnn
\* gives any I up to 0xFFF): the three writes of BCD at I..I+2 and the
\* sprite-row reads of DRW never fall at or beyond memory_size.
C36_BcdAndDrwStayInside ==
  [][ (/\ last_call' = "c8_step"
       /\ Len(state'.ops) = 1
       /\ \/ state'.ops[1] \div 4096 = 13
          \/ state'.ops[1] \div 4096 = 15 /\ OpNN(state'.ops[1]) = 51
       /\ state.registers.i <= 4095) =>
        state'.ub = {} ]_vars

\* the keys of the machine s that are pressed
PressedKeys(s) == { k \in 0..(C8_KEY_MAX - 1) : s.pressed_keys[k] }

\* the word at pc is an LD Vx, KEY (Fx0A)
AtKeyWait ==
  /\ state.registers.pc + 1 < state.config.memory_size
  /\ state.memory[state.registers.pc] \div 16 = 15
  /\ state.memory[state.registers.pc + 1] = 10

\* C37: while no key is pressed a c8_step on Fx0A changes nothing and pc
\* stays on the instruction; when a key is pressed it sets Vx to the
\* lowest-numbered pressed key and adds 2 to pc.  Hence if from some time on
\* a key is always pressed, repeated stepping does not stay on the Fx0A.
C37_WaitForKey ==
  /\ [][ (/\ last_call' = "c8_step"
           /\ Len(state'.ops) = 1
           /\ state'.ops[1] \div 4096 = 15
           /\ OpNN(state'.ops[1]) = 10) =>
            IF PressedKeys(state) = {}
              THEN Machine(state') = Machine(state)
              ELSE /\ \E k \in PressedKeys(state) :
                        /\ \A o \in PressedKeys(state) : k <= o
                        /\ state'.registers =
                             [state.registers EXCEPT !.v[OpX(state'.ops[1])] = k,
                                                     !.pc = @ + 2]
                   /\ state'.memory = state.memory
                   /\ state'.display = state.display ]_vars
  /\ (<>[](PressedKeys(state) # {})) => []<>(~AtKeyWait)

\* C37 witness: after LD V0, 5 the word LD V1, KEY was stepped with the keys
\* 3 and 7 pressed: V1 is 3 and pc is past the instruction
C37_Witness ==
  /\ last_call = "c8_step"
  /\ state.ops = << 61706 >>
  /\ PressedKeys(state) = {3, 7}
  /\ state.registers.v[0] = 5
  /\ state.registers.v[1] = 3
  /\ state.registers.pc = C8_ROM_OFFSET + 4

\* the machine is as c8_reset leaves it, with no ROM loaded
FreshNoRom ==
  /\ state.registers = ResetRegisters
  /\ state.memory = ResetMemory(state.config)

\* C38: a program that runs off into zeroed memory ends in the fault state:
\* every word 0x0000 executes as SYS (pc += 2 and nothing else changes,
\* until pc reaches memory_size and is set to 0x000), so from a freshly
\* reset machine with no ROM repeated c8_step leads to pc = 0x000, and pc
\* stays 0x000 from then on.
C38_ZeroMemoryFaults ==
  /\ [][ (/\ last_call' = "c8_step"
           /\ state'.ops = << 0 >>
           /\ state'.ub = {}) =>
            /\ state'.registers =
                 [state.registers EXCEPT !.pc =
                    IF @ + 2 >= state.config.memory_size THEN C8_PC_ON_FAULT ELSE @ + 2]
            /\ state'.memory = state.memory
            /\ state'.display = state.display ]_vars
  /\ FreshNoRom ~> [](state.registers.pc = C8_PC_ON_FAULT)

\* C38 witness: with no ROM the SYS at the last word of memory was stepped
\* and pc is 0x000
C38_Witness ==
  /\ last_call = "c8_step"
  /\ state.ops = << 0 >>
  /\ state.memory = ResetMemory(state.config)
  /\ state.registers.pc = C8_PC_ON_FAULT

=============================================================================
